---- MODULE Spec2Model ----
(***************************************************************************)
(* A model of the Guilty Gear Xrd mod manager (WistfulHopes/ggxrd-mod-     *)
(* manager): the mod registry (config.ini, section Mods), the in-memory    *)
(* mod list, the reconcile pass (update_mods), install (install_mod /      *)
(* init_mod), the list handlers of the GUI frame (toggle, drag-reorder,    *)
(* remove), the deployment pass (setup_mods_and_play) with its slot        *)
(* allocation and engine-config merge, and the descriptor writer           *)
(* (ModData::write_data) with the reader of update_mods.                   *)
(*                                                                         *)
(* Three specifications share the variables:                               *)
(*   Spec        the manager: registry, list, Mods directory               *)
(*   SpecDeploy  the deployment pass over a list                           *)
(*   SpecDesc    write_data followed by the descriptor read                *)
(***************************************************************************)
EXTENDS Integers, Sequences, FiniteSets, TLC

(***************************************************************************)
(* Bounds of the model.                                                    *)
(***************************************************************************)
\* Directory names under Mods/ and Name values of descriptors.
Names == {"A", "B"}

\* The longest in-memory list a handler may still extend.
MaxMods == 3

\* The slot names a, b, ... that exist: the model's stand-in for the code
\* points from 'a' up to U+D7FF, after which char::from_u32 fails.
NumSlots == 3

\* The most script packages a descriptor declares.
MaxScripts == 2

\* The longest text field of a descriptor, in characters.
MaxStr == 2

VARIABLES
    \* ---- the manager process (ManagerState, CONFIG, WINDOW)
    mod_datas,      \* ManagerState.mod_datas: the in-memory list
    config,         \* CONFIG.config, section Mods: ordered (key, val) pairs
    selected_mod,   \* ManagerState.selected_mod.name
    remove_open,    \* WindowState.remove_open
    pc,             \* "frame": a handler returned, update_mods of the frame
                    \* is pending; "idle": between frames; "panicked"
    log,            \* the lines the last operation added to the log
    lastOp,         \* the operation that returned last
    \* ---- the files
    disk,           \* config.ini: [exists, mods]
    fs,             \* Mods/<dir>/mod.ini for every directory name
    regWritable,    \* whether config.ini can be written
    prevInstall,    \* the state the last install left (history)
    \* ---- the deployment pass (setup_mods_and_play)
    target,         \* REDGame/CookedPCConsole/Mods: slot -> [exists, mods]
    engine,         \* DefaultEngine.ini: [readable, section, packages]
    engineWritable, \* whether DefaultEngine.ini can be written
    dpc,            \* "idle", "mods" (inside the loop over the list), "done"
    di,             \* the position of the loop, from Len(mod_datas) down
    placed,         \* per position, what this pass did with the record
    dlog,           \* the lines this pass has logged
    cleared,        \* whether this pass began on an empty deployment target
    prevPackages,   \* +NativePackages as the previous pass left them
    \* ---- a descriptor written and read back ----
    toWrite,        \* the ModData that write_data is called on
    modIni,         \* its mod.ini: [exists, description, scripts], the
                    \* sections as sequences of [key, val]
    readBack,       \* the ModData the next reconcile builds from the file
    spc,            \* "off", "new", "written", "failed", "read"
    \* ---- the Edit Mod window
    edit_open,      \* WindowState.edit_open
    mod_edit,       \* ManagerState.mod_edit: the record being edited
    \* ---- a second process, started with -download
    hpc,            \* "off", "start", "scanned", "installed", "rescanned",
                    \* "done", "panicked"
    hlist,          \* its ManagerState.mod_datas
    hconfig,        \* its CONFIG.config, section Mods
    hmod            \* the name of the record its install appended, or ""

mvars == <<mod_datas, config, selected_mod, remove_open, pc, log, lastOp,
           disk, fs, regWritable, prevInstall>>

dvars == <<target, engine, engineWritable, dpc, di, placed, dlog, cleared,
           prevPackages>>

svars == <<toWrite, modIni, readBack, spc>>

evars == <<edit_open, mod_edit>>

hvars == <<hpc, hlist, hconfig, hmod>>

(***************************************************************************)
(* Values.                                                                 *)
(***************************************************************************)
\* The state of Mods/<dir>: no directory, a directory without mod.ini, an
\* unparsable mod.ini, one without [Description], one whose [Description]
\* has no Name, or a descriptor with a Name.
NoDir   == [kind |-> "nodir",  name |-> ""]
NoIni   == [kind |-> "noini",  name |-> ""]
BadIni  == [kind |-> "bad",    name |-> ""]
NoDesc  == [kind |-> "nodesc", name |-> ""]
NoName  == [kind |-> "noname", name |-> ""]
Named(n) == [kind |-> "ok", name |-> n]

Descriptors == {NoIni, BadIni, NoDesc, NoName} \cup {Named(n) : n \in Names}

Line(sev, msg) == [sev |-> sev, msg |-> msg]

\* ModData::new() with the fields the manager's control flow reads.
NewModData == [name |-> "New Mod", path |-> "", enabled |-> TRUE, order |-> 0,
               scripts |-> <<>>]

\* ModData::default(), which ManagerState::default() gives mod_edit.
DefaultModData == [name |-> "", path |-> "", enabled |-> FALSE, order |-> 0,
                   scripts |-> <<>>]

BoolStr(b) == IF b THEN "True" ELSE "False"

(***************************************************************************)
(* The ini section Mods as rust-ini keeps it: an ordered multimap used     *)
(* with one value per key.                                                 *)
(***************************************************************************)
HasKey(reg, k) == \E i \in DOMAIN reg : reg[i].key = k

GetVal(reg, k) == reg[CHOOSE i \in DOMAIN reg : reg[i].key = k].val

\* SectionSetter::delete
DeleteKey(reg, k) == SelectSeq(reg, LAMBDA e : e.key # k)

\* SectionSetter::set: Properties::insert replaces every value of the key by
\* the new one, which is pushed at the back of the section.
SetKey(reg, k, v) == Append(DeleteKey(reg, k), [key |-> k, val |-> v])

Keys(reg) == [i \in DOMAIN reg |-> reg[i].key]

ListNames(list) == [i \in DOMAIN list |-> list[i].name]

(***************************************************************************)
(* The registry helpers of main.rs.                                        *)
(***************************************************************************)
\* init_mod_config: an existing entry decides the record's enabled flag
\* ("True" or not); a missing one is added as "True".
init_mod_config(mod_name, data, cfg) ==
    IF HasKey(cfg, mod_name)
    THEN [data   |-> [data EXCEPT !.enabled = (GetVal(cfg, mod_name) = "True")],
          config |-> cfg]
    ELSE [data   |-> data,
          config |-> SetKey(cfg, mod_name, "True")]

\* update_mod_config: the checkbox handler's write of one entry.
update_mod_config(mod_name, data, cfg) ==
    SetKey(cfg, mod_name, BoolStr(data.enabled))

\* remove_mod_config
remove_mod_config(mod_name, cfg) == DeleteKey(cfg, mod_name)

\* write_config: the whole in-memory config goes to config.ini; a failure is
\* logged and nothing else happens.
write_config(cfg, d, w) ==
    IF w THEN [disk |-> [exists |-> TRUE, mods |-> cfg], log |-> {}]
         ELSE [disk |-> d, log |-> {Line("Error", "Could not create config ini")}]

\* The loop of set_mod_order_config over the list, after the section Mods
\* has been deleted.
RECURSIVE OrderEntries(_, _)
OrderEntries(list, acc) ==
    IF list = <<>> THEN acc
    ELSE OrderEntries(Tail(list),
                      SetKey(acc, Head(list).name, BoolStr(Head(list).enabled)))

\* config.config.delete(Some("Mods")): the section is gone.
DeleteMods(cfg) == SubSeq(cfg, 1, 0)

\* set_mod_order_config: the section Mods is deleted and written again from
\* the list (write_config follows).
set_mod_order_config(list, cfg) == OrderEntries(list, DeleteMods(cfg))

(***************************************************************************)
(* update_mods: the reconcile pass.                                        *)
(***************************************************************************)
\* init_config: config.ini is loaded when it exists; otherwise create_config
\* writes the config the process holds.
init_config(cfg, d, w) ==
    IF d.exists
    THEN [config |-> d.mods, disk |-> d, log |-> {}]
    ELSE LET wr == write_config(cfg, d, w)
         IN  [config |-> cfg, disk |-> wr.disk, log |-> wr.log]

\* The enabled flag update_mods reads from the entry's value.
\* Path::join(&self.mods_path, key).join("mod.ini"): for the empty key
\* this is Mods/mod.ini, which is no mod's descriptor.
DirState(files, k) == IF k \in DOMAIN files THEN files[k] ELSE NoIni

EntryEnabled(val) == IF val = "False" THEN FALSE ELSE TRUE

\* One registry entry of the loop of update_mods: acc is the list built so
\* far, whether the registry needs a rewrite, and the lines logged.
ScanEntry(entry, files, acc) ==
    LET d == DirState(files, entry.key) IN
    CASE d.kind \in {"nodir", "noini"} ->
            [acc EXCEPT !.req = TRUE,
                        !.log = @ \cup {Line("Error", "Path does not exist")}]
      [] d.kind = "bad" ->
            [acc EXCEPT !.req = TRUE,
                        !.log = @ \cup {Line("Error", "Ini does not exist")}]
      [] d.kind = "nodesc" ->
            [acc EXCEPT !.req = TRUE,
                        !.log = @ \cup {Line("Error", "No description section")}]
      [] d.kind = "noname" ->
            [acc EXCEPT !.log = @ \cup {Line("Warn", "No name in description")}]
      [] OTHER ->
            [acc EXCEPT !.list = Append(@,
                            [name    |-> d.name,
                             path    |-> d.name,
                             enabled |-> EntryEnabled(entry.val),
                             order   |-> Len(acc.list),
                             scripts |-> <<>>])]

RECURSIVE ScanRegistry(_, _, _)
ScanRegistry(entries, files, acc) ==
    IF entries = <<>> THEN acc
    ELSE ScanRegistry(Tail(entries), files, ScanEntry(Head(entries), files, acc))

\* The init_mod_config pass of update_mods over the new list.
RECURSIVE InitPass(_, _, _)
InitPass(list, i, cfg) ==
    IF i > Len(list) THEN [list |-> list, config |-> cfg]
    ELSE LET r == init_mod_config(list[i].name, list[i], cfg)
         IN  InitPass([list EXCEPT ![i] = r.data], i + 1, r.config)

\* update_mods: the list, the in-memory registry, config.ini and the log it
\* leaves, from the registry the process holds, config.ini and Mods/.
update_mods(cfg, d, w, files) ==
    LET ic   == init_config(cfg, d, w)
        scan == ScanRegistry(ic.config, files,
                             [list |-> <<>>, req |-> FALSE, log |-> {}])
        ip   == InitPass(scan.list, 1, ic.config)
        sect == set_mod_order_config(ip.list, ip.config)
        wr   == write_config(sect, ic.disk, w)
    IN  IF scan.req
        THEN [list |-> ip.list, config |-> sect, disk |-> wr.disk,
              log |-> ic.log \cup scan.log \cup wr.log]
        ELSE [list |-> ip.list, config |-> ip.config, disk |-> ic.disk,
              log |-> ic.log \cup scan.log]

(***************************************************************************)
(* init_mod and install_mod.                                               *)
(***************************************************************************)
\* ModData::write_data as init_mod uses it: Mods/<dir>/mod.ini becomes a
\* descriptor whose Name is the record's name.
WriteDataFile(files, dir, name) == [files EXCEPT ![dir] = Named(name)]

\* The four branches of init_mod that synthesize a descriptor named after
\* the directory (no mod.ini, unparsable mod.ini, no [Description]).
InitModSynth(name, list, cfg, d, w, files, msg) ==
    LET data == [NewModData EXCEPT !.name = name, !.path = name]
        r    == init_mod_config(name, data, cfg)
        wr   == write_config(r.config, d, w)
    IN  [list   |-> Append(list, r.data),
         config |-> r.config,
         disk   |-> wr.disk,
         fs     |-> WriteDataFile(files, name, name),
         log    |-> wr.log \cup {Line("Warn", msg)},
         panic  |-> FALSE]

\* The branch of init_mod for a mod.ini with a [Description] section.
InitModDescribed(name, list, cfg, d, w, files) ==
    LET desc == files[name] IN
    IF desc.kind = "noname"
    THEN \* the warning is logged, then mod_name.unwrap() panics
         [list |-> list, config |-> cfg, disk |-> d, fs |-> files,
          log |-> {Line("Warn", "No name in description")}, panic |-> TRUE]
    ELSE LET data == [NewModData EXCEPT !.name = desc.name, !.path = name]
             r    == init_mod_config(desc.name, data, cfg)
             wr   == write_config(r.config, d, w)
         IN  [list   |-> Append(list, r.data),
              config |-> r.config,
              disk   |-> wr.disk,
              fs     |-> files,
              log    |-> wr.log,
              panic  |-> FALSE]

\* init_mod(name, config)
init_mod(name, list, cfg, d, w, files) ==
    IF \E i \in DOMAIN list : list[i].name = name
    THEN [list |-> list, config |-> cfg, disk |-> d, fs |-> files,
          log |-> {}, panic |-> FALSE]
    ELSE CASE files[name].kind \in {"nodir", "noini"} ->
                InitModSynth(name, list, cfg, d, w, files, "No mod ini, created one")
           [] files[name].kind = "bad" ->
                InitModSynth(name, list, cfg, d, w, files, "No mod ini, created one")
           [] files[name].kind = "nodesc" ->
                InitModSynth(name, list, cfg, d, w, files,
                             "No description section, created one")
           [] OTHER ->
                InitModDescribed(name, list, cfg, d, w, files)

\* What extracting an archive into Mods/<dir> leaves there: the archive's
\* mod.ini, or the one already in the directory when the archive has none.
Extracted(files, dir, content) ==
    IF content = NoIni /\ files[dir].kind \notin {"nodir", "noini"}
    THEN files
    ELSE [files EXCEPT ![dir] = content]

\* The outcomes of install_mod before init_mod is reached.
InstallOutcomes == {"ok", "bad_extension", "unreadable", "extract_failed"}

InstallError(outcome) ==
    CASE outcome = "bad_extension" -> Line("Error", "Invalid file extension")
      [] outcome = "unreadable"    -> Line("Error", "Could not read archive")
      [] OTHER                     -> Line("Error", "Could not extract archive")

NoInstall == [valid |-> FALSE, dir |-> "", content |-> NoDir,
              list |-> <<>>, config |-> <<>>, disk |-> <<>>]

\* An install that goes on to init_mod whatever became of the archive.
InstallRegardless(outcome, dir, list, cfg, d, w, files) ==
    init_mod(dir, list, cfg, d, w, files)

\* install_mod(path, config) once the archive is dealt with: init_mod when
\* it was extracted, an Error line otherwise.  `files' is Mods/ as the
\* extraction left it.
install_mod(outcome, dir, list, cfg, d, w, files) ==
    IF outcome = "ok"
    THEN init_mod(dir, list, cfg, d, w, files)
    ELSE [list |-> list, config |-> cfg, disk |-> d, fs |-> files,
          log |-> {InstallError(outcome)}, panic |-> FALSE]

\* File > Install Mod: install_mod(path, config) for an archive <dir>.zip
\* whose mod.ini is `content'.  An extraction that fails is taken to have
\* written no mod.ini.
Install(dir, content, outcome) ==
    /\ pc = "idle"
    /\ Len(mod_datas) < MaxMods
    /\ IF outcome # "ok"
       THEN LET r == install_mod(outcome, dir, mod_datas, config, disk,
                                 regWritable, fs)
            IN  /\ mod_datas' = r.list
                /\ config' = r.config
                /\ disk' = r.disk
                /\ fs' = r.fs
                /\ log' = r.log
                /\ lastOp' = [op |-> "install_failed", arg |-> dir]
                /\ pc' = "frame"
                /\ UNCHANGED <<prevInstall>>
       ELSE LET r == install_mod(outcome, dir, mod_datas, config, disk,
                                 regWritable, Extracted(fs, dir, content))
            IN  /\ mod_datas' = r.list
                /\ config' = r.config
                /\ disk' = r.disk
                /\ fs' = r.fs
                /\ log' = r.log
                /\ pc' = IF r.panic THEN "panicked" ELSE "frame"
                /\ lastOp' = [op |-> IF r.panic THEN "install_panic" ELSE "install",
                              arg |-> dir]
                /\ prevInstall' =
                     IF r.panic THEN NoInstall
                     ELSE [valid |-> TRUE, dir |-> dir, content |-> content,
                           list |-> r.list, config |-> r.config,
                           disk |-> r.disk.mods]
    /\ UNCHANGED <<selected_mod, remove_open, regWritable>>
    /\ UNCHANGED <<dvars, svars, evars, hvars>>

(***************************************************************************)
(* The handlers of the frame (ManagerState::update) on the list.           *)
(***************************************************************************)
\* The rewrite update() performs when mods_layout reports a change:
\* set_mod_order_config, which writes, then write_config once more.
RewriteRegistry(list, cfg, d, w) ==
    LET sect == set_mod_order_config(list, cfg)
        wr   == write_config(sect, d, w)
    IN  [config |-> sect, disk |-> wr.disk, log |-> wr.log]

\* The checkbox of mods_layout on the record at position i (from 1).
Toggle(i) ==
    /\ pc = "idle"
    /\ i \in DOMAIN mod_datas
    /\ LET list == [mod_datas EXCEPT ![i].enabled = ~@]
           cfg1 == update_mod_config(list[i].name, list[i], config)
           rw   == RewriteRegistry(list, cfg1, disk, regWritable)
       IN  /\ mod_datas' = list
           /\ config' = rw.config
           /\ disk' = rw.disk
           /\ log' = rw.log
           /\ lastOp' = [op |-> "toggle", arg |-> list[i].name]
    /\ pc' = "frame"
    /\ prevInstall' = NoInstall
    /\ UNCHANGED <<selected_mod, remove_open, fs, regWritable>>
    /\ UNCHANGED <<dvars, svars, evars, hvars>>

\* egui_dnd::utils::shift_vec(source_idx, target_idx, vec) with the indices
\* counted from 1: vec[source..target) is rotated left by one, or
\* vec[target..=source] right by one.
shift_vec(f, t, list) ==
    IF f < t
    THEN SubSeq(list, 1, f - 1) \o SubSeq(list, f + 1, t - 1)
           \o <<list[f]>> \o SubSeq(list, t, Len(list))
    ELSE SubSeq(list, 1, t - 1) \o <<list[f]>>
           \o SubSeq(list, t, f - 1) \o SubSeq(list, f + 1, Len(list))

\* The order fields left as the drag found them.
KeepOrder(list) == list

\* data.order = i for every record, positions counted from 0.
Renumber(list) == [i \in DOMAIN list |-> [list[i] EXCEPT !.order = i - 1]]

\* A completed drag of mods_layout from position f to the gap t.
Reorder(f, t) ==
    /\ pc = "idle"
    /\ f \in DOMAIN mod_datas
    /\ t \in 1..(Len(mod_datas) + 1)
    /\ LET list == Renumber(shift_vec(f, t, mod_datas))
           rw   == RewriteRegistry(list, config, disk, regWritable)
       IN  /\ mod_datas' = list
           /\ config' = rw.config
           /\ disk' = rw.disk
           /\ log' = rw.log
           /\ lastOp' = [op |-> "reorder", arg |-> mod_datas[f].name]
    /\ pc' = "frame"
    /\ prevInstall' = NoInstall
    /\ UNCHANGED <<selected_mod, remove_open, fs, regWritable>>
    /\ UNCHANGED <<dvars, svars, evars, hvars>>

\* The context menu of a row: the row becomes the selected mod and "Remove
\* mod" opens the Remove Mod window.
RequestRemove(i) ==
    /\ pc = "idle"
    /\ i \in DOMAIN mod_datas
    /\ selected_mod' = mod_datas[i].name
    /\ remove_open' = TRUE
    /\ log' = {}
    /\ lastOp' = [op |-> "request_remove", arg |-> mod_datas[i].name]
    /\ pc' = "frame"
    /\ UNCHANGED <<mod_datas, config, disk, fs, regWritable, prevInstall>>
    /\ UNCHANGED <<dvars, svars, evars, hvars>>

\* selected_index of update(): the first record named like the selected mod,
\* 0 standing for usize::MAX (no such record).
selected_index(list, sel) ==
    IF \E i \in DOMAIN list : list[i].name = sel
    THEN CHOOSE i \in DOMAIN list :
            /\ list[i].name = sel
            /\ \A j \in 1..(i - 1) : list[j].name # sel
    ELSE 0

RemoveAt(list, i) == SubSeq(list, 1, i - 1) \o SubSeq(list, i + 1, Len(list))

\* The registry the Delete branch leaves: the entry is deleted, then
\* set_mod_order_config rebuilds the section from the list and writes it,
\* and write_config writes it again.
RemoveRegistry(list, idx, cfg, d, w) ==
    RewriteRegistry(list, remove_mod_config(list[idx].name, cfg), d, w)

\* "Delete" in the Remove Mod window; rmOk is whether remove_dir_all can
\* delete an existing directory.
RemoveConfirm(rmOk) ==
    /\ pc = "idle"
    /\ remove_open
    /\ LET idx == selected_index(mod_datas, selected_mod) IN
       IF idx = 0
       THEN \* self.mod_datas[usize::MAX] panics
            /\ pc' = "panicked"
            /\ log' = {}
            /\ lastOp' = [op |-> "remove_panic", arg |-> selected_mod]
            /\ UNCHANGED <<mod_datas, config, disk, fs, remove_open>>
       ELSE IF rmOk /\ fs[mod_datas[idx].path].kind # "nodir"
       THEN LET rr == RemoveRegistry(mod_datas, idx, config, disk, regWritable)
            IN  /\ fs' = [fs EXCEPT ![mod_datas[idx].path] = NoDir]
                /\ config' = rr.config
                /\ disk' = rr.disk
                /\ mod_datas' = RemoveAt(mod_datas, idx)
                /\ remove_open' = FALSE
                /\ log' = rr.log
                /\ lastOp' = [op |-> "remove", arg |-> mod_datas[idx].name]
                /\ pc' = "frame"
       ELSE /\ log' = {Line("Error", "Could not remove mod")}
            /\ lastOp' = [op |-> "remove_failed", arg |-> mod_datas[idx].name]
            /\ pc' = "frame"
            /\ UNCHANGED <<mod_datas, config, disk, fs, remove_open>>
    /\ prevInstall' = NoInstall
    /\ UNCHANGED <<selected_mod, regWritable>>
    /\ UNCHANGED <<dvars, svars, evars, hvars>>

\* "Cancel" in the Remove Mod window.
RemoveCancel ==
    /\ pc = "idle"
    /\ remove_open
    /\ remove_open' = FALSE
    /\ log' = {}
    /\ lastOp' = [op |-> "remove_cancel", arg |-> selected_mod]
    /\ pc' = "frame"
    /\ UNCHANGED <<mod_datas, config, selected_mod, disk, fs, regWritable,
                   prevInstall>>
    /\ UNCHANGED <<dvars, svars, evars, hvars>>

\* self.update_mods() at the end of every frame.
Reconcile ==
    /\ pc \in {"idle", "frame"}
    /\ LET r == update_mods(config, disk, regWritable, fs)
       IN  /\ mod_datas' = r.list
           /\ config' = r.config
           /\ disk' = r.disk
           /\ log' = r.log
    /\ lastOp' = [op |-> "reconcile", arg |-> ""]
    /\ pc' = "idle"
    /\ UNCHANGED <<selected_mod, remove_open, fs, regWritable, prevInstall>>
    /\ UNCHANGED <<dvars, svars, evars, hvars>>

(***************************************************************************)
(* The environment: the user's own changes under Mods/, the writability of *)
(* config.ini, and a new process after a panic.                            *)
(***************************************************************************)
\* What the user leaves in Mods/<dir> behind the manager's back: the
\* directory deleted, a mod.ini without [Description], one without Name.
ExternalStates == {NoDir, NoDesc, NoName}

\* Mods/<dir> is deleted, or its mod.ini replaced, outside the manager.
ExternalChange(dir, desc) ==
    /\ pc = "idle"
    /\ fs[dir] # desc
    /\ fs' = [fs EXCEPT ![dir] = desc]
    /\ prevInstall' = NoInstall
    /\ UNCHANGED <<mod_datas, config, selected_mod, remove_open, pc, log,
                   lastOp, disk, regWritable>>
    /\ UNCHANGED <<dvars, svars, evars, hvars>>

\* The manager is started again after a panic: a default ManagerState,
\* CONFIG and WINDOW; the files stay.
Restart ==
    /\ pc = "panicked"
    /\ mod_datas' = <<>>
    /\ config' = <<>>
    /\ selected_mod' = ""
    /\ remove_open' = FALSE
    /\ log' = {}
    /\ lastOp' = [op |-> "start", arg |-> ""]
    /\ pc' = "frame"
    /\ prevInstall' = NoInstall
    /\ UNCHANGED <<disk, fs, regWritable>>
    /\ edit_open' = FALSE
    /\ mod_edit' = DefaultModData
    /\ UNCHANGED <<dvars, svars, hvars>>

\* config.ini becomes read-only, or writable again, outside the manager.
SetWritable(w) ==
    /\ pc = "idle"
    /\ regWritable # w
    /\ regWritable' = w
    /\ UNCHANGED <<mod_datas, config, selected_mod, remove_open, pc, log,
                   lastOp, disk, fs, prevInstall>>
    /\ UNCHANGED <<dvars, svars, evars, hvars>>

\* What the user can make of a mod.ini with an editor: the states above,
\* a Name changed to another one, a Name left empty (the line `Name=').
EditedStates == ExternalStates \cup {Named(n) : n \in Names \cup {""}}

\* The values a line of section Mods can have after an edit by hand: the
\* two the manager writes and a malformed one.
RegistryValues == {"True", "False", "Maybe"}

\* The user edits config.ini: the value of the entry at position e becomes
\* v, the line stays where it is.
EditRegistry(e, v) ==
    /\ pc = "idle"
    /\ disk.exists
    /\ e \in DOMAIN disk.mods
    /\ disk.mods[e].val # v
    /\ disk' = [disk EXCEPT !.mods[e].val = v]
    /\ lastOp' = [op |-> "edit_registry", arg |-> disk.mods[e].key]
    /\ UNCHANGED <<mod_datas, config, selected_mod, remove_open, pc, log,
                   fs, regWritable, prevInstall>>
    /\ UNCHANGED <<dvars, svars, evars, hvars>>

(***************************************************************************)
(* The Edit Mod window of update().                                        *)
(***************************************************************************)
\* A rename that moves the directory and reports a failure all the same.
RenameHalfDone(files, src, dst, renameOk) ==
    [ok    |-> FALSE,
     files |-> IF src # dst /\ files[src].kind # "nodir"
               THEN [files EXCEPT ![src] = NoDir, ![dst] = files[src]]
               ELSE files]

\* fs::rename(Mods/<src>, Mods/<dst>): fails when the source is missing or
\* the destination is another directory with content, or when the system
\* refuses it (renameOk); a rename onto itself changes nothing.
RenameDir(files, src, dst, renameOk) ==
    LET ok == /\ renameOk
              /\ files[src].kind # "nodir"
              /\ src = dst \/ files[dst].kind \in {"nodir", "noini"}
    IN  [ok    |-> ok,
         files |-> IF ok /\ src # dst
                   THEN [files EXCEPT ![src] = NoDir, ![dst] = files[src]]
                   ELSE files]

\* "Edit mod" in the context menu of a row: the row is the selected mod,
\* the window opens on a clone of its record.
RequestEdit(i) ==
    /\ pc = "idle"
    /\ i \in DOMAIN mod_datas
    /\ selected_mod' = mod_datas[i].name
    /\ edit_open' = TRUE
    /\ mod_edit' = mod_datas[selected_index(mod_datas, mod_datas[i].name)]
    /\ log' = {}
    /\ lastOp' = [op |-> "request_edit", arg |-> mod_datas[i].name]
    /\ pc' = "frame"
    /\ prevInstall' = NoInstall
    /\ UNCHANGED <<mod_datas, config, remove_open, disk, fs, regWritable>>
    /\ UNCHANGED <<dvars, svars, hvars>>

\* The names the user types into the Name field, the empty one included.
TypedNames == Names \cup {""}

\* ui.text_edit_singleline(&mut self.mod_edit.name)
EditName(n) ==
    /\ pc = "idle"
    /\ edit_open
    /\ mod_edit.name # n
    /\ mod_edit' = [mod_edit EXCEPT !.name = n]
    /\ edit_open' = edit_open
    /\ UNCHANGED <<mvars, dvars, svars, hvars>>

\* `data.name == self.mod_edit.name && data.name != self.selected_mod.name'
\* for some record of the list.
DuplicateEdit(list, edited, sel) ==
    \E i \in DOMAIN list : list[i].name = edited /\ list[i].name # sel

\* What a second CONFIG.lock() by the thread that holds the lock does: the
\* call never returns, the thread blocks for good or panics.
RelockOutcomes == {"hung", "panicked"}

\* "OK" in the Edit Mod window.  renameOk and writeOk are whether the
\* system lets fs::rename and write_data through, relock what the second
\* lock of CONFIG does.
EditOk(renameOk, writeOk, relock) ==
    /\ pc = "idle"
    /\ edit_open
    /\ prevInstall' = NoInstall
    /\ UNCHANGED <<selected_mod, remove_open, regWritable, edit_open>>
    /\ UNCHANGED <<dvars, svars, hvars>>
    /\ LET idx == selected_index(mod_datas, selected_mod) IN
       IF mod_edit.name = ""
       THEN /\ log' = {Line("Error", "You must give your mod a name")}
            /\ lastOp' = [op |-> "edit_rejected", arg |-> selected_mod]
            /\ pc' = "frame"
            /\ UNCHANGED <<mod_datas, config, disk, fs, mod_edit>>
       ELSE IF DuplicateEdit(mod_datas, mod_edit.name, selected_mod)
       THEN /\ log' = {Line("Error", "A mod with that name already exists")}
            /\ lastOp' = [op |-> "edit_rejected", arg |-> selected_mod]
            /\ pc' = "frame"
            /\ UNCHANGED <<mod_datas, config, disk, fs, mod_edit>>
       ELSE IF idx = 0
       THEN \* self.mod_datas[usize::MAX] panics
            /\ mod_edit' = [mod_edit EXCEPT !.path = mod_edit.name]
            /\ log' = {}
            /\ lastOp' = [op |-> "edit_panic", arg |-> selected_mod]
            /\ pc' = "panicked"
            /\ UNCHANGED <<mod_datas, config, disk, fs>>
       ELSE LET rn == RenameDir(fs, mod_datas[idx].path, mod_edit.name, renameOk)
            IN  /\ mod_edit' = [mod_edit EXCEPT !.path = mod_edit.name]
                /\ UNCHANGED <<mod_datas, config, disk>>
                /\ IF ~rn.ok
                   THEN /\ fs' = rn.files
                        /\ log' = {Line("Error", "Could not rename directory for edited mod")}
                        /\ lastOp' = [op |-> "edit_rename_failed", arg |-> selected_mod]
                        /\ pc' = "frame"
                   ELSE IF ~writeOk
                   THEN /\ fs' = rn.files
                        /\ log' = {Line("Error", "Could not edit mod")}
                        /\ lastOp' = [op |-> "edit_write_failed", arg |-> selected_mod]
                        /\ pc' = "frame"
                   ELSE IF mod_edit.name # mod_datas[idx].name
                   THEN \* CONFIG is locked, remove_mod_config locks it again
                        /\ fs' = [rn.files EXCEPT ![mod_edit.name] = Named(mod_edit.name)]
                        /\ log' = {}
                        /\ lastOp' = [op |-> "edit_relock", arg |-> selected_mod]
                        /\ pc' = relock
                   ELSE /\ fs' = [rn.files EXCEPT ![mod_edit.name] = Named(mod_edit.name)]
                        /\ log' = {}
                        /\ lastOp' = [op |-> "edit_same_name", arg |-> selected_mod]
                        /\ pc' = "frame"

\* The close button of the Edit Mod window.
EditClose ==
    /\ pc = "idle"
    /\ edit_open
    /\ edit_open' = FALSE
    /\ mod_edit' = mod_edit
    /\ UNCHANGED <<mvars, dvars, svars, hvars>>

\* The user ends a process that hangs; it is started again like after a
\* panic.
KillHung ==
    /\ pc = "hung"
    /\ pc' = "panicked"
    /\ UNCHANGED <<mod_datas, config, selected_mod, remove_open, log, lastOp,
                   disk, fs, regWritable, prevInstall>>
    /\ UNCHANGED <<dvars, svars, evars, hvars>>

(***************************************************************************)
(* main() started with -download while the interactive instance runs: a    *)
(* second process with its own ManagerState and CONFIG, on the same        *)
(* config.ini and Mods/.  SingleInstance only tells it is_running, which   *)
(* decides between append_log and init_log; nothing excludes the two       *)
(* processes from config.ini.  A step is one call of main(); the lines the *)
(* process writes to its own log are left out.                             *)
(***************************************************************************)
\* manager.update_mods() at line 60.
HeadlessScan ==
    /\ hpc = "start"
    /\ LET r == update_mods(hconfig, disk, regWritable, fs)
       IN  /\ hlist' = r.list
           /\ hconfig' = r.config
           /\ disk' = r.disk
    /\ hpc' = "scanned"
    /\ UNCHANGED <<hmod>>
    /\ UNCHANGED <<mod_datas, config, selected_mod, remove_open, pc, log,
                   lastOp, fs, regWritable, prevInstall>>
    /\ UNCHANGED <<dvars, svars, evars>>

\* What prepare_download and install_mod can come to.
HeadlessOutcomes == InstallOutcomes \cup {"download_failed"}

\* prepare_download and manager.install_mod(path, &mut config), lines
\* 67-73, for a downloaded archive <dir>.zip whose mod.ini is `content'.
HeadlessInstall(dir, content, outcome) ==
    /\ hpc = "scanned"
    /\ IF outcome # "ok"
       THEN /\ hpc' = "installed"
            /\ UNCHANGED <<hlist, hconfig, hmod, disk, fs>>
       ELSE LET r == install_mod(outcome, dir, hlist, hconfig, disk,
                                 regWritable, Extracted(fs, dir, content))
            IN  /\ hlist' = r.list
                /\ hconfig' = r.config
                /\ disk' = r.disk
                /\ fs' = r.fs
                /\ hpc' = IF r.panic THEN "panicked" ELSE "installed"
                /\ hmod' = IF ~r.panic /\ Len(r.list) > Len(hlist)
                           THEN r.list[Len(r.list)].name ELSE ""
    /\ UNCHANGED <<mod_datas, config, selected_mod, remove_open, pc, log,
                   lastOp, regWritable, prevInstall>>
    /\ UNCHANGED <<dvars, svars, evars>>

\* manager.update_mods() at line 75.
HeadlessRescan ==
    /\ hpc = "installed"
    /\ LET r == update_mods(hconfig, disk, regWritable, fs)
       IN  /\ hlist' = r.list
           /\ hconfig' = r.config
           /\ disk' = r.disk
    /\ hpc' = "rescanned"
    /\ UNCHANGED <<hmod>>
    /\ UNCHANGED <<mod_datas, config, selected_mod, remove_open, pc, log,
                   lastOp, fs, regWritable, prevInstall>>
    /\ UNCHANGED <<dvars, svars, evars>>

\* set_mod_order_config and write_config at lines 76-78, then return.
HeadlessRewrite ==
    /\ hpc = "rescanned"
    /\ LET rw == RewriteRegistry(hlist, hconfig, disk, regWritable)
       IN  /\ hconfig' = rw.config
           /\ disk' = rw.disk
    /\ hpc' = "done"
    /\ UNCHANGED <<hlist, hmod>>
    /\ UNCHANGED <<mod_datas, config, selected_mod, remove_open, pc, log,
                   lastOp, fs, regWritable, prevInstall>>
    /\ UNCHANGED <<dvars, svars, evars>>

(***************************************************************************)
(* The manager's specification.                                            *)
(***************************************************************************)
MInit ==
    /\ mod_datas = <<>>
    /\ config = <<>>
    /\ selected_mod = ""
    /\ remove_open = FALSE
    /\ pc = "frame"
    /\ log = {}
    /\ lastOp = [op |-> "start", arg |-> ""]
    /\ disk = [exists |-> FALSE, mods |-> <<>>]
    /\ fs = [d \in Names |-> NoDir]
    /\ regWritable = TRUE
    /\ prevInstall = NoInstall

Next ==
    \/ \E dir \in Names, content \in Descriptors, outcome \in InstallOutcomes :
          Install(dir, content, outcome)
    \/ \E i \in 1..MaxMods : Toggle(i)
    \/ \E f \in 1..MaxMods, t \in 1..(MaxMods + 1) : Reorder(f, t)
    \/ \E i \in 1..MaxMods : RequestRemove(i)
    \/ \E rmOk \in BOOLEAN : RemoveConfirm(rmOk)
    \/ RemoveCancel
    \/ Reconcile
    \/ \E dir \in Names, desc \in ExternalStates : ExternalChange(dir, desc)
    \/ Restart

(***************************************************************************)
(* helpers.rs: the slot names.                                             *)
(***************************************************************************)
\* 'a', the first candidate of the slot search.
CharA == 97

\* The last code point add1_char can reach from 'a'.
LastChar == CharA + NumSlots - 1

SlotChars == CharA..LastChar

\* An increment that never moves.
SameChar(c) == c

\* An increment that steps back.
BackChar(c) == IF c - 1 \in SlotChars THEN c - 1 ELSE c

\* add1_char: the next code point, or c itself when there is none.
add1_char(c) == IF c + 1 \in SlotChars THEN c + 1 ELSE c

\* add1_str: every character of the string incremented on its own.
add1_str(str) == [i \in DOMAIN str |-> add1_char(str[i])]

\* Path::join(&game_mods_path, &folder_string).exists()
SlotExists(tgt, folder) == tgt[folder[1]].exists

\* The while loop of setup_mods_and_play: the first candidate from `folder'
\* on that is no directory, or the candidate at which add1_str changes
\* nothing (the loop logs and breaks).
RECURSIVE FindSlot(_, _)
FindSlot(tgt, folder) ==
    IF SlotExists(tgt, folder)
    THEN LET tmp == add1_str(folder)
         IN  IF folder # tmp THEN FindSlot(tgt, tmp)
             ELSE [folder |-> folder, exhausted |-> TRUE]
    ELSE [folder |-> folder, exhausted |-> FALSE]

(***************************************************************************)
(* The deployment target and copy_recursively.                             *)
(***************************************************************************)
NoSlot == [exists |-> FALSE, mods |-> {}]

EmptyTarget == [c \in SlotChars |-> NoSlot]

\* The outcomes of copy_recursively(path, target/slot/name): everything
\* copied; create_dir_all failed (nothing is created); a later step failed
\* (the directory exists, its content is incomplete).
CopyOutcomes == {"ok", "mkdir_failed", "copy_failed"}

\* A slot directory holds one directory per mod name; `complete' says that
\* the last copy into it went through.
copy_recursively(tgt, folder, data, outcome) ==
    IF outcome = "mkdir_failed" THEN tgt
    ELSE [tgt EXCEPT ![folder[1]] =
            [exists |-> TRUE,
             mods   |-> {m \in @.mods : m.name # data.name} \cup
                        {[name |-> data.name, path |-> data.path,
                          complete |-> (outcome = "ok")]}]]

\* A copy that takes the files away from where they were.
MoveSource(files, data, outcome) ==
    IF outcome = "ok" /\ data.path \in DOMAIN files
    THEN [files EXCEPT ![data.path] = NoDir] ELSE files

\* What copy_recursively does to the directory it copies from: read_dir
\* and fs::copy read the source tree and write under the destination only.
CopySource(files, data, outcome) == files

\* fs::remove_dir_all(target).unwrap_or_default()
ClearTarget(tgt, clearOk) == IF clearOk THEN EmptyTarget ELSE tgt

(***************************************************************************)
(* DefaultEngine.ini, section Engine.ScriptPackages, key +NativePackages.  *)
(***************************************************************************)
\* ini.write_to_file_policy(&ini_path, EscapePolicy::Nothing)
WriteEngine(old, new, w) ==
    IF w THEN [file |-> new, log |-> {}]
         ELSE [file |-> old, log |-> {Line("Error", "Could not write DefaultEngine.ini")}]

\* A reset step that leaves the list as it found it.
ResetNothing(file, w) == [file |-> file, log |-> {}]

\* The reset step: every +NativePackages value is removed and REDGame
\* appended, then the file is written.
ResetPackages(file, w) ==
    IF ~file.readable
    THEN [file |-> file, log |-> {Line("Error", "Could not read DefaultEngine.ini")}]
    ELSE IF ~file.section
    THEN [file |-> file, log |-> {Line("Error", "Could not find Engine.ScriptPackages")}]
    ELSE WriteEngine(file, [file EXCEPT !.packages = <<"REDGame">>], w)

\* section.get_all("+NativePackages").find(|x| x == script).is_none()
Absent(packages, script) == \A i \in DOMAIN packages : packages[i] # script

\* A script appended whether or not it is present.
AppendPackage(packages, script) == Append(packages, script)

\* One script of the loop over mod_data.scripts.
AddPackage(packages, script) ==
    IF Absent(packages, script) THEN Append(packages, script) ELSE packages

RECURSIVE AddPackages(_, _)
AddPackages(packages, scripts) ==
    IF scripts = <<>> THEN packages
    ELSE AddPackages(AddPackage(packages, Head(scripts)), Tail(scripts))

\* A merge that adds the packages to whatever file it finds, making the
\* section when there is none.
MergeInventing(file, scripts, w) ==
    [file |-> [file EXCEPT !.packages = AddPackages(@, scripts)], log |-> {}]

\* A merge that leaves the file as it is.
MergeNothing(file, scripts, w) == [file |-> file, log |-> {}]

\* The per-mod merge: the file is loaded, every script of the mod added
\* unless present, and the file written.
MergeScripts(file, scripts, w) ==
    IF ~file.readable
    THEN [file |-> file, log |-> {Line("Error", "Could not read DefaultEngine.ini")}]
    ELSE IF ~file.section
    THEN [file |-> file,
          log  |-> IF scripts = <<>> THEN {}
                   ELSE {Line("Error", "Could not find Engine.ScriptPackages")}]
    ELSE LET pk == AddPackages(file.packages, scripts)
             wr == WriteEngine(file, [file EXCEPT !.packages = pk], w)
         IN  [file |-> wr.file,
              log  |-> wr.log \cup
                       (IF pk # file.packages
                        THEN {Line("Info", "Added script package")} ELSE {})]

(***************************************************************************)
(* setup_mods_and_play: one deployment pass, a step per iteration of its   *)
(* loop over the list in reverse.                                          *)
(***************************************************************************)
NotPlaced == [result |-> "none", slot |-> 0, exhausted |-> FALSE]

\* "Launch Game": the reset step on DefaultEngine.ini and remove_dir_all of
\* the deployment target; clearOk is whether remove_dir_all succeeds.
DeployStart(clearOk) ==
    /\ dpc = "idle"
    /\ clearOk \/ target # EmptyTarget
    /\ LET rs == ResetPackages(engine, engineWritable)
       IN  /\ engine' = rs.file
           /\ dlog' = rs.log
    /\ target' = ClearTarget(target, clearOk)
    /\ cleared' = (ClearTarget(target, clearOk) = EmptyTarget)
    /\ placed' = [i \in DOMAIN mod_datas |-> NotPlaced]
    /\ di' = Len(mod_datas)
    /\ dpc' = "mods"
    /\ UNCHANGED <<engineWritable, prevPackages>>
    /\ UNCHANGED <<mvars, svars, evars, hvars>>

\* One iteration of `for mod_data in self.mod_datas.iter().rev()' on an
\* enabled record; outcome is what copy_recursively does.
DeployEnabled(outcome) ==
    /\ dpc = "mods"
    /\ di >= 1
    /\ mod_datas[di].enabled
    /\ LET data == mod_datas[di]
           fnd  == FindSlot(target, <<CharA>>)
           full == IF fnd.exhausted
                   THEN {Line("Error", "Too many mods installed")} ELSE {}
           mg   == MergeScripts(engine, data.scripts, engineWritable)
       IN  /\ target' = copy_recursively(target, fnd.folder, data, outcome)
           /\ placed' = [placed EXCEPT ![di] =
                            [result    |-> IF outcome = "ok" THEN "copied" ELSE outcome,
                             slot      |-> fnd.folder[1],
                             exhausted |-> fnd.exhausted]]
           /\ IF outcome = "ok"
              THEN /\ engine' = mg.file
                   /\ dlog' = dlog \cup full \cup mg.log
              ELSE /\ engine' = engine
                   /\ dlog' = dlog \cup full \cup {Line("Error", "Could not copy mod")}
    /\ fs' = CopySource(fs, mod_datas[di], outcome)
    /\ di' = di - 1
    /\ UNCHANGED <<engineWritable, dpc, cleared, prevPackages>>
    /\ UNCHANGED <<mod_datas, config, selected_mod, remove_open, pc, log,
                   lastOp, disk, regWritable, prevInstall>>
    /\ UNCHANGED <<svars, evars, hvars>>

\* An iteration on a record that is not enabled.
DeployDisabled ==
    /\ dpc = "mods"
    /\ di >= 1
    /\ ~mod_datas[di].enabled
    /\ placed' = [placed EXCEPT ![di].result = "disabled"]
    /\ di' = di - 1
    /\ UNCHANGED <<target, engine, engineWritable, dpc, dlog, cleared,
                   prevPackages>>
    /\ UNCHANGED <<mvars, svars, evars, hvars>>

\* The loop is over: "Mods copied to game directory!".
DeployFinish ==
    /\ dpc = "mods"
    /\ di = 0
    /\ dpc' = "done"
    /\ dlog' = dlog \cup {Line("Info", "Mods copied to game directory")}
    /\ UNCHANGED <<target, engine, engineWritable, di, placed, cleared,
                   prevPackages>>
    /\ UNCHANGED <<mvars, svars, evars, hvars>>

(***************************************************************************)
(* Between two launches: the manager's window is back, the user unticks or *)
(* ticks a mod, or removes one, and presses "Launch Game" again.  Only the *)
(* list side of the handlers matters to the pass; their registry side is   *)
(* Toggle and RemoveConfirm.                                               *)
(***************************************************************************)
\* setup_mods_and_play has returned; the next frame shows the list again.
LaunchReturned ==
    /\ dpc = "done"
    /\ dpc' = "idle"
    /\ prevPackages' = engine.packages
    /\ placed' = <<>>
    /\ dlog' = {}
    /\ UNCHANGED <<target, engine, engineWritable, di, cleared>>
    /\ UNCHANGED <<mvars, svars, evars, hvars>>

\* The checkbox of a row, between two launches.
ToggleBeforeLaunch(i) ==
    /\ dpc = "idle"
    /\ i \in DOMAIN mod_datas
    /\ mod_datas' = [mod_datas EXCEPT ![i].enabled = ~@]
    /\ UNCHANGED <<config, selected_mod, remove_open, pc, log, lastOp, disk, fs,
                   regWritable, prevInstall>>
    /\ UNCHANGED <<dvars, svars, evars, hvars>>

\* self.mod_datas.remove(selected_index) of the Remove Mod window, between
\* two launches.
RemoveBeforeLaunch(i) ==
    /\ dpc = "idle"
    /\ i \in DOMAIN mod_datas
    /\ mod_datas' = RemoveAt(mod_datas, i)
    /\ UNCHANGED <<config, selected_mod, remove_open, pc, log, lastOp, disk, fs,
                   regWritable, prevInstall>>
    /\ UNCHANGED <<dvars, svars, evars, hvars>>

(***************************************************************************)
(* The specification of the deployment pass: any list of records, any      *)
(* deployment target left by an earlier run, any DefaultEngine.ini.        *)
(***************************************************************************)
\* The names of the records, by position.
ModNames == <<"A", "B", "C", "D", "E">>

\* The lists deployed are no longer than the slot names there are.
MaxDeployMods == NumSlots

\* The script lists of the records, by position: a package twice, a package
\* and the bootstrap entry, a package another mod declares too, none.
ModScripts == <<<<"P", "P">>, <<"Q", "REDGame">>, <<"P">>, <<>>, <<"Q">>>>

\* Mods that declare no script package.
NoScripts == <<<<>>, <<>>, <<>>, <<>>, <<>>>>

ScriptProfiles == {ModScripts, NoScripts}

DeployLists ==
    UNION {{[i \in 1..n |-> [name |-> ModNames[i], path |-> ModNames[i],
                            enabled |-> en[i], order |-> i - 1,
                            scripts |-> sc[i]]] :
              en \in [1..n -> BOOLEAN], sc \in ScriptProfiles} :
           n \in 0..MaxDeployMods}

\* A slot directory an earlier run left.
OldSlot == [exists |-> TRUE, mods |-> {}]

EngineFiles ==
    {[readable |-> FALSE, section |-> FALSE, packages |-> <<>>],
     [readable |-> TRUE,  section |-> FALSE, packages |-> <<>>],
     [readable |-> TRUE,  section |-> TRUE,  packages |-> <<"REDGame">>],
     [readable |-> TRUE,  section |-> TRUE,  packages |-> <<"REDGame", "Old", "Old">>]}


(***************************************************************************)
(* mod_data.rs: the descriptor file mod.ini, written by write_data and     *)
(* read back by update_mods.  A string is a sequence of characters.        *)
(***************************************************************************)
Backslash == "\\"

Chars == {"a", Backslash}

RECURSIVE StringsUpTo(_)
StringsUpTo(n) ==
    IF n = 0 THEN {<<>>}
    ELSE LET shorter == StringsUpTo(n - 1)
         IN  shorter \cup {Append(str, c) : str \in shorter, c \in Chars}

\* write_to_file escapes with EscapePolicy::Basics: a backslash is written
\* as two.
RECURSIVE EscapeBasics(_)
EscapeBasics(str) ==
    IF str = <<>> THEN <<>>
    ELSE (IF Head(str) = Backslash THEN <<Backslash, Backslash>> ELSE <<Head(str)>>)
         \o EscapeBasics(Tail(str))

\* load_from_file_noescape: the characters of the value as they are in the
\* file.
ReadNoEscape(str) == str

NoFile == [exists |-> FALSE, description |-> <<>>, scripts |-> <<>>]

\* `for script in &self.scripts { ...set("ScriptPackage", script) }'
RECURSIVE SetScripts(_, _)
SetScripts(section, scripts) ==
    IF scripts = <<>> THEN section
    ELSE SetScripts(SetKey(section, "ScriptPackage", Head(scripts)), Tail(scripts))

\* What conf.write_to_file puts in the file: the values escaped.
EscapeSection(section) ==
    [i \in DOMAIN section |-> [key |-> section[i].key,
                               val |-> EscapeBasics(section[i].val)]]

\* ModData::write_data
write_data(data) ==
    LET d1 == SetKey(<<>>, "Name", data.name)
        d2 == SetKey(d1, "Author", data.author)
        d3 == SetKey(d2, "Version", data.version)
        d4 == SetKey(d3, "Category", data.category)
        d5 == SetKey(d4, "Description", data.description)
        d6 == SetKey(d5, "Page", data.page)
    IN  [exists      |-> TRUE,
         description |-> EscapeSection(d6),
         scripts     |-> EscapeSection(SetScripts(<<>>, data.scripts))]

\* desc.get(key) with the field's default when the key is absent.
GetOr(section, k, default) ==
    IF HasKey(section, k) THEN ReadNoEscape(GetVal(section, k)) ELSE default

\* section.get_all("ScriptPackage"), in file order.
GetAllScripts(section) ==
    LET hits == SelectSeq(section, LAMBDA e : e.key = "ScriptPackage")
    IN  [i \in DOMAIN hits |-> ReadNoEscape(hits[i].val)]

\* The descriptor read of update_mods, for a file that has its Name.
read_data(f) ==
    [name        |-> GetOr(f.description, "Name", <<>>),
     author      |-> GetOr(f.description, "Author", <<>>),
     version     |-> GetOr(f.description, "Version", <<>>),
     category    |-> GetOr(f.description, "Category", <<>>),
     description |-> GetOr(f.description, "Description", <<>>),
     page        |-> GetOr(f.description, "Page", <<>>),
     scripts     |-> GetAllScripts(f.scripts)]

NoData == [name |-> <<>>, author |-> <<>>, version |-> <<>>, category |-> <<>>,
           description |-> <<>>, page |-> <<>>, scripts |-> <<>>]

\* write_data: writeOk is whether create_dir_all and the write go through.
WriteData(writeOk) ==
    /\ spc = "new"
    /\ modIni' = IF writeOk THEN write_data(toWrite) ELSE modIni
    /\ spc' = IF writeOk THEN "written" ELSE "failed"
    /\ UNCHANGED <<toWrite, readBack>>
    /\ UNCHANGED <<mvars, dvars, evars, hvars>>

\* The next reconcile reads the file.
ReadData ==
    /\ spc = "written"
    /\ readBack' = read_data(modIni)
    /\ spc' = "read"
    /\ UNCHANGED <<toWrite, modIni>>
    /\ UNCHANGED <<mvars, dvars, evars, hvars>>

\* The package names of the descriptors.
ScriptNames == {<<"P">>, <<"Q">>}

ScriptListsUpTo(n) == UNION {[1..k -> ScriptNames] : k \in 0..n}

ShortValues == {<<>>, <<"a">>}

DIdle ==
    /\ target = EmptyTarget
    /\ engine = [readable |-> TRUE, section |-> TRUE, packages |-> <<"REDGame">>]
    /\ engineWritable = TRUE
    /\ dpc = "idle"
    /\ di = 0
    /\ placed = <<>>
    /\ dlog = {}
    /\ cleared = FALSE
    /\ prevPackages = <<>>

\* No Edit Mod window: WindowState and ManagerState as Default makes them.
EIdle ==
    /\ edit_open = FALSE
    /\ mod_edit = DefaultModData

\* No -download process.
HOff ==
    /\ hpc = "off"
    /\ hlist = <<>>
    /\ hconfig = <<>>
    /\ hmod = ""

SIdle ==
    /\ toWrite = NoData
    /\ modIni = NoFile
    /\ readBack = NoData
    /\ spc = "off"

SInit ==
    /\ toWrite \in {[name |-> n, author |-> a, version |-> v, category |-> c,
                  description |-> t, page |-> g, scripts |-> sc] :
                    n \in StringsUpTo(MaxStr) \ {<<>>}, a \in StringsUpTo(MaxStr),
                    v \in ShortValues, c \in ShortValues, t \in ShortValues,
                    g \in ShortValues, sc \in ScriptListsUpTo(MaxScripts)}
    /\ modIni = NoFile
    /\ readBack = NoData
    /\ spc = "new"
    /\ MInit
    /\ DIdle
    /\ EIdle
    /\ HOff

SNext ==
    \/ \E writeOk \in BOOLEAN : WriteData(writeOk)
    \/ ReadData

DInit ==
    /\ mod_datas \in DeployLists
    /\ target \in [SlotChars -> {NoSlot, OldSlot}]
    /\ engine \in EngineFiles
    /\ engineWritable \in BOOLEAN
    /\ dpc = "idle"
    /\ di = 0
    /\ placed = <<>>
    /\ dlog = {}
    /\ cleared = FALSE
    /\ prevPackages = <<>>
    /\ config = OrderEntries(mod_datas, <<>>)
    /\ selected_mod = ""
    /\ remove_open = FALSE
    /\ pc = "idle"
    /\ log = {}
    /\ lastOp = [op |-> "start", arg |-> ""]
    /\ disk = [exists |-> TRUE, mods |-> OrderEntries(mod_datas, <<>>)]
    /\ fs = [d \in {ModNames[i] : i \in 1..MaxDeployMods} |->
               IF \E i \in DOMAIN mod_datas : mod_datas[i].path = d
               THEN Named(d) ELSE NoDir]
    /\ regWritable = TRUE
    /\ prevInstall = NoInstall
    /\ SIdle
    /\ EIdle
    /\ HOff

DNext ==
    \/ \E clearOk \in BOOLEAN : DeployStart(clearOk)
    \/ \E outcome \in CopyOutcomes : DeployEnabled(outcome)
    \/ DeployDisabled
    \/ DeployFinish

\* Launch after launch: a short list whose mods declare packages, the
\* target and DefaultEngine.ini as an earlier run left them.  Every launch
\* clears the target; a target that cannot be cleared is SpecDeploy's.
MaxRelaunchMods == 2

RelaunchLists ==
    UNION {{[i \in 1..n |-> [name |-> ModNames[i], path |-> ModNames[i],
                            enabled |-> en[i], order |-> i - 1,
                            scripts |-> ModScripts[i]]] :
              en \in [1..n -> BOOLEAN]} :
           n \in 1..MaxRelaunchMods}

RInit ==
    /\ mod_datas \in RelaunchLists
    /\ target \in [SlotChars -> {NoSlot, OldSlot}]
    /\ engine \in EngineFiles
    /\ engineWritable \in BOOLEAN
    /\ dpc = "idle"
    /\ di = 0
    /\ placed = <<>>
    /\ dlog = {}
    /\ cleared = FALSE
    /\ prevPackages = <<>>
    /\ config = <<>>
    /\ selected_mod = ""
    /\ remove_open = FALSE
    /\ pc = "idle"
    /\ log = {}
    /\ lastOp = [op |-> "start", arg |-> ""]
    /\ disk = [exists |-> TRUE, mods |-> <<>>]
    /\ fs = [d \in Names |-> NoDir]
    /\ regWritable = TRUE
    /\ prevInstall = NoInstall
    /\ SIdle
    /\ EIdle
    /\ HOff

RNext ==
    \/ DeployStart(TRUE)
    \/ \E outcome \in CopyOutcomes : DeployEnabled(outcome)
    \/ DeployDisabled
    \/ DeployFinish
    \/ LaunchReturned
    \/ \E i \in 1..MaxRelaunchMods : ToggleBeforeLaunch(i)
    \/ \E i \in 1..MaxRelaunchMods : RemoveBeforeLaunch(i)

\* Launch after launch on a deployment target that the manager cannot
\* always clear (the game still holds a file, a permission is missing):
\* remove_dir_all fails and unwrap_or_default drops the error.  The target
\* starts absent and DefaultEngine.ini is in order.
StaleInit ==
    /\ mod_datas \in RelaunchLists
    /\ target = EmptyTarget
    /\ engine = [readable |-> TRUE, section |-> TRUE, packages |-> <<"REDGame">>]
    /\ engineWritable = TRUE
    /\ dpc = "idle"
    /\ di = 0
    /\ placed = <<>>
    /\ dlog = {}
    /\ cleared = FALSE
    /\ prevPackages = <<>>
    /\ config = <<>>
    /\ selected_mod = ""
    /\ remove_open = FALSE
    /\ pc = "idle"
    /\ log = {}
    /\ lastOp = [op |-> "start", arg |-> ""]
    /\ disk = [exists |-> TRUE, mods |-> <<>>]
    /\ fs = [d \in Names |-> NoDir]
    /\ regWritable = TRUE
    /\ prevInstall = NoInstall
    /\ SIdle
    /\ EIdle
    /\ HOff

StaleNext ==
    \/ \E clearOk \in BOOLEAN : DeployStart(clearOk)
    \/ \E outcome \in CopyOutcomes : DeployEnabled(outcome)
    \/ DeployDisabled
    \/ DeployFinish
    \/ LaunchReturned
    \/ \E i \in 1..MaxRelaunchMods : ToggleBeforeLaunch(i)

\* The rows of the list dragged and ticked: up to MaxMods mods installed
\* under names of their own, each with its directory and descriptor, the
\* list and config.ini as the last frame's update_mods left them.
OrderedLists ==
    UNION {{[i \in 1..n |-> [name |-> ModNames[i], path |-> ModNames[i],
                            enabled |-> en[i], order |-> i - 1,
                            scripts |-> <<>>]] :
              en \in [1..n -> BOOLEAN]} :
           n \in 1..MaxMods}

OrderInit ==
    /\ mod_datas \in OrderedLists
    /\ config = OrderEntries(mod_datas, <<>>)
    /\ disk = [exists |-> TRUE, mods |-> OrderEntries(mod_datas, <<>>)]
    /\ fs = [d \in {ModNames[i] : i \in 1..MaxMods} |->
               IF \E i \in DOMAIN mod_datas : mod_datas[i].name = d
               THEN Named(d) ELSE NoDir]
    /\ selected_mod = ""
    /\ remove_open = FALSE
    /\ pc = "idle"
    /\ log = {}
    /\ lastOp = [op |-> "start", arg |-> ""]
    /\ regWritable = TRUE
    /\ prevInstall = NoInstall
    /\ DIdle
    /\ SIdle
    /\ EIdle
    /\ HOff

OrderNext ==
    \/ \E f \in 1..MaxMods, t \in 1..(MaxMods + 1) : Reorder(f, t)
    \/ \E i \in 1..MaxMods : Toggle(i)
    \/ Reconcile

\* The Edit Mod window on a manager with one or two mods installed,
\* ticked or not.
InstalledLists ==
    UNION {{[i \in 1..Len(ns) |-> [name |-> ns[i], path |-> ns[i],
                                   enabled |-> en[i], order |-> i - 1,
                                   scripts |-> <<>>]] :
              en \in [1..Len(ns) -> BOOLEAN]} :
           ns \in {<<"A">>, <<"B">>, <<"A", "B">>, <<"B", "A">>}}

EInit ==
    /\ mod_datas \in InstalledLists
    /\ config = OrderEntries(mod_datas, <<>>)
    /\ disk = [exists |-> TRUE, mods |-> OrderEntries(mod_datas, <<>>)]
    /\ fs = [d \in Names |->
               IF \E i \in DOMAIN mod_datas : mod_datas[i].name = d
               THEN Named(d) ELSE NoDir]
    /\ selected_mod = ""
    /\ remove_open = FALSE
    /\ pc = "idle"
    /\ log = {}
    /\ lastOp = [op |-> "start", arg |-> ""]
    /\ regWritable = TRUE
    /\ prevInstall = NoInstall
    /\ DIdle
    /\ SIdle
    /\ EIdle
    /\ HOff

ENext ==
    \/ \E i \in 1..MaxMods : RequestEdit(i)
    \/ \E n \in TypedNames : EditName(n)
    \/ \E renameOk \in BOOLEAN, writeOk \in BOOLEAN, relock \in RelockOutcomes :
          EditOk(renameOk, writeOk, relock)
    \/ EditClose
    \/ KillHung
    \/ Reconcile
    \/ \E dir \in Names, desc \in ExternalStates : ExternalChange(dir, desc)
    \/ Restart

\* The handlers that rewrite the registry, on a manager with one or two
\* mods installed and a config.ini that may be read-only.
WInit ==
    /\ mod_datas \in InstalledLists
    /\ config = OrderEntries(mod_datas, <<>>)
    /\ disk = [exists |-> TRUE, mods |-> OrderEntries(mod_datas, <<>>)]
    /\ fs = [d \in Names |->
               IF \E i \in DOMAIN mod_datas : mod_datas[i].name = d
               THEN Named(d) ELSE NoDir]
    /\ selected_mod = ""
    /\ remove_open = FALSE
    /\ pc = "idle"
    /\ log = {}
    /\ lastOp = [op |-> "start", arg |-> ""]
    /\ regWritable \in BOOLEAN
    /\ prevInstall = NoInstall
    /\ DIdle
    /\ SIdle
    /\ EIdle
    /\ HOff

WNext ==
    \/ \E i \in 1..MaxMods : Toggle(i)
    \/ \E f \in 1..MaxMods, t \in 1..(MaxMods + 1) : Reorder(f, t)
    \/ \E i \in 1..MaxMods : RequestRemove(i)
    \/ \E rmOk \in BOOLEAN : RemoveConfirm(rmOk)
    \/ RemoveCancel
    \/ Reconcile
    \/ \E w \in BOOLEAN : SetWritable(w)

\* The interactive instance with one or two mods installed, and a
\* -download process just started.
HInit ==
    /\ mod_datas \in InstalledLists
    /\ config = OrderEntries(mod_datas, <<>>)
    /\ disk = [exists |-> TRUE, mods |-> OrderEntries(mod_datas, <<>>)]
    /\ fs = [d \in Names |->
               IF \E i \in DOMAIN mod_datas : mod_datas[i].name = d
               THEN Named(d) ELSE NoDir]
    /\ selected_mod = ""
    /\ remove_open = FALSE
    /\ pc = "idle"
    /\ log = {}
    /\ lastOp = [op |-> "start", arg |-> ""]
    /\ regWritable = TRUE
    /\ prevInstall = NoInstall
    /\ hpc = "start"
    /\ hlist = <<>>
    /\ hconfig = <<>>
    /\ hmod = ""
    /\ DIdle
    /\ SIdle
    /\ EIdle

HNext ==
    \/ HeadlessScan
    \/ \E dir \in Names, content \in Descriptors, outcome \in HeadlessOutcomes :
          HeadlessInstall(dir, content, outcome)
    \/ HeadlessRescan
    \/ HeadlessRewrite
    \/ \E i \in 1..MaxMods : Toggle(i)
    \/ \E f \in 1..MaxMods, t \in 1..(MaxMods + 1) : Reorder(f, t)
    \/ Reconcile

\* Reconcile after reconcile on a manager with one or two mods installed,
\* while the user edits the descriptors under Mods/.
NInit ==
    /\ mod_datas \in InstalledLists
    /\ config = OrderEntries(mod_datas, <<>>)
    /\ disk = [exists |-> TRUE, mods |-> OrderEntries(mod_datas, <<>>)]
    /\ fs = [d \in Names |->
               IF \E i \in DOMAIN mod_datas : mod_datas[i].name = d
               THEN Named(d) ELSE NoDir]
    /\ selected_mod = ""
    /\ remove_open = FALSE
    /\ pc = "idle"
    /\ log = {}
    /\ lastOp = [op |-> "start", arg |-> ""]
    /\ regWritable = TRUE
    /\ prevInstall = NoInstall
    /\ DIdle
    /\ SIdle
    /\ EIdle
    /\ HOff

NNext ==
    \/ Reconcile
    \/ \E dir \in Names, desc \in EditedStates : ExternalChange(dir, desc)
    \/ \E i \in 1..MaxMods : Toggle(i)
    \/ \E e \in 1..MaxMods, v \in RegistryValues : EditRegistry(e, v)

vars == <<mvars, dvars, svars, evars, hvars>>

\* The manager from its start, nothing deployed, no descriptor at hand.
Init == MInit /\ DIdle /\ SIdle /\ EIdle /\ HOff

Spec == Init /\ [][Next]_vars

SpecDeploy == DInit /\ [][DNext]_vars

SpecRelaunch == RInit /\ [][RNext]_vars

SpecEdit == EInit /\ [][ENext]_vars

SpecWrite == WInit /\ [][WNext]_vars

SpecHeadless == HInit /\ [][HNext]_vars

SpecScan == NInit /\ [][NNext]_vars

SpecDesc == SInit /\ [][SNext]_vars

SpecStale == StaleInit /\ [][StaleNext]_vars

SpecOrder == OrderInit /\ [][OrderNext]_vars

\* The loop of setup_mods_and_play runs in one thread from its first
\* iteration to "Mods copied": a pass that has begun takes its next step.
PassStep ==
    \/ \E outcome \in CopyOutcomes : DeployEnabled(outcome)
    \/ DeployDisabled
    \/ DeployFinish

SpecDeployLive == DInit /\ [][DNext]_vars /\ WF_vars(PassStep)

(***************************************************************************)
(* Claims about the registry and the list (specification Spec).            *)
(***************************************************************************)
ListOps == {"install", "remove", "toggle", "reorder", "reconcile"}

\* C1 (order invariant): whenever an install, a removal, a toggle, a
\* drag-reorder or a reconcile has returned, the keys of section Mods of
\* config.ini are the names of the in-memory list, position by position.
C1_OrderInvariant ==
    lastOp.op \in ListOps => Keys(disk.mods) = ListNames(mod_datas)

\* The install that just returned repeats the one before it: the same
\* archive into the same directory, with only reconciles in between.
RepeatsInstall(dir, content) ==
    /\ prevInstall.valid
    /\ prevInstall.dir = dir
    /\ prevInstall.content = content

\* A list without the derived order fields.
Unordered(list) == [i \in DOMAIN list |-> [list[i] EXCEPT !.order = 0]]

\* C2 (idempotent install): when the same archive is installed a second
\* time, list and registry (in memory and on disk) are what the first
\* install left, the list holds exactly one record of the installed
\* directory and the registry exactly one entry of that record's name.
C2_IdempotentInstall ==
    [][\A dir \in Names, content \in Descriptors :
          (Install(dir, content, "ok") /\ RepeatsInstall(dir, content)
              /\ pc' # "panicked")
          => /\ Unordered(mod_datas') = Unordered(prevInstall.list)
             /\ config' = prevInstall.config
             /\ disk'.mods = prevInstall.disk
             /\ Cardinality({i \in DOMAIN mod_datas' : mod_datas'[i].path = dir}) = 1
             /\ \A i \in DOMAIN mod_datas' :
                   mod_datas'[i].path = dir =>
                     Cardinality({j \in DOMAIN disk'.mods :
                           disk'.mods[j].key = mod_datas'[i].name}) = 1
      ]_vars

\* The entries of a registry whose mod.ini yields a record.
Surviving(reg, files) == SelectSeq(reg, LAMBDA e : files[e.key].kind = "ok")

\* An entry of the registry whose Mods/<key>/mod.ini does not exist.
DeadEntry(e, files) == files[e.key].kind \in {"nodir", "noini"}

\* C8 (externally deleted mod): a reconcile that meets a registry entry
\* whose descriptor path is gone leaves no record of that mod, logs an
\* Error, and rewrites config.ini to exactly the surviving entries, in their
\* order and with their enabled values.
C8_DeletedModDropped ==
    [][(Reconcile /\ disk.exists
          /\ \E i \in DOMAIN disk.mods : DeadEntry(disk.mods[i], fs))
       => /\ \A i \in DOMAIN disk.mods :
                DeadEntry(disk.mods[i], fs) =>
                   /\ \A j \in DOMAIN mod_datas' :
                         mod_datas'[j].name # disk.mods[i].key
                   /\ ~HasKey(disk'.mods, disk.mods[i].key)
          /\ \E l \in log' : l.sev = "Error"
          /\ Keys(disk'.mods) = Keys(Surviving(disk.mods, fs))
          /\ \A j \in DOMAIN disk'.mods :
                (disk'.mods[j].val = "True")
                   = (GetVal(disk.mods, disk'.mods[j].key) = "True")
      ]_vars

\* The directory an install extracts into has no usable descriptor.
NoDescriptor(d) == d.kind \in {"nodir", "noini", "bad", "nodesc"}

\* C9 (manual install without a usable descriptor): installing directory N,
\* not yet in the list, whose mod.ini is absent, unparsable or without
\* [Description] writes a descriptor with Name = N, appends one enabled
\* record named N, adds a registry entry for N and logs a warning.
C9_SynthesizedDescriptor ==
    [][\A dir \in Names, content \in Descriptors :
          (/\ Install(dir, content, "ok")
           /\ NoDescriptor(Extracted(fs, dir, content)[dir])
           /\ \A i \in DOMAIN mod_datas : mod_datas[i].name # dir)
          => /\ pc' # "panicked"
             /\ fs'[dir] = Named(dir)
             /\ Len(mod_datas') = Len(mod_datas) + 1
             /\ SubSeq(mod_datas', 1, Len(mod_datas)) = mod_datas
             /\ mod_datas'[Len(mod_datas')].name = dir
             /\ mod_datas'[Len(mod_datas')].enabled
             /\ HasKey(config', dir) /\ HasKey(disk'.mods, dir)
             /\ \E l \in log' : l.sev = "Warn"
      ]_vars


(***************************************************************************)
(* The deployment pass.                                                    *)
(***************************************************************************)
EnabledIdx == {i \in DOMAIN mod_datas : mod_datas[i].enabled}

Count(seq, x) == Cardinality({i \in DOMAIN seq : seq[i] = x})

InPass == dpc \in {"mods", "done"}

Copied(i) == placed[i].result = "copied"

\* C4 (idempotent script merge): during and after a deployment on a
\* readable, writable engine configuration that has the section, every
\* package of every mod whose merge has run occurs exactly once in
\* +NativePackages: a name twice in one script list, a name two mods
\* declare, and a name equal to the bootstrap entry REDGame included.
C4_IdempotentMerge ==
    (InPass /\ engine.readable /\ engine.section /\ engineWritable) =>
        \A i \in DOMAIN placed :
            Copied(i) =>
                \A k \in DOMAIN mod_datas[i].scripts :
                    Count(engine.packages, mod_datas[i].scripts[k]) = 1

\* Three mods merged: P twice in the first list and again in the third,
\* REDGame in the second.
C4_Witness ==
    /\ dpc = "done"
    /\ engine.readable /\ engine.section /\ engineWritable
    /\ Len(mod_datas) = 3
    /\ \A i \in 1..3 : Copied(i)
    /\ Count(engine.packages, "P") = 1
    /\ Count(engine.packages, "REDGame") = 1

\* The number of enabled records from position i down to the bottom.
RankFromBottom(i) == Cardinality({j \in EnabledIdx : j >= i})

\* C5 (reverse-order slot assignment): after a deployment that began on a
\* cleared target and in which every copy succeeded, the enabled mod that
\* is the r-th from the bottom of the list is in the r-th slot of a, b, c,
\* ... and its files are complete under target/slot/name.
C5_ReverseSlots ==
    (dpc = "done" /\ cleared /\ \A i \in EnabledIdx : Copied(i)) =>
        \A i \in EnabledIdx :
            /\ placed[i].slot = CharA + RankFromBottom(i) - 1
            /\ [name |-> mod_datas[i].name, path |-> mod_datas[i].path,
                complete |-> TRUE] \in target[placed[i].slot].mods

\* [A, B, C], all enabled: C in a, B in b, A in c.
C5_Witness ==
    /\ dpc = "done" /\ cleared
    /\ Len(mod_datas) = 3
    /\ \A i \in 1..3 : mod_datas[i].enabled /\ Copied(i)
    /\ placed[3].slot = CharA
    /\ placed[2].slot = CharA + 1
    /\ placed[1].slot = CharA + 2

\* C6 (slot exhaustion): a mod for which the slot search ran out of names
\* has no file copied under the deployment target.
C6_ExhaustedNotCopied ==
    InPass =>
        \A i \in DOMAIN placed :
            placed[i].exhausted => placed[i].result \notin {"copied", "copy_failed"}

\* C7 (priority preserved): of two mods copied in one pass, the one nearer
\* the top of the list is in the slot with the greater name, so no two
\* share a slot.
C7_PriorityPreserved ==
    InPass =>
        \A i, j \in DOMAIN placed :
            (i < j /\ Copied(i) /\ Copied(j)) => placed[i].slot > placed[j].slot

Declared(i, packages) ==
    \A k \in DOMAIN mod_datas[i].scripts : ~Absent(packages, mod_datas[i].scripts[k])

\* C10 as stated: after a deployment on a readable engine configuration
\* that has the section (and that can be written), every package of every
\* enabled mod is in +NativePackages, a mod whose copy failed included.
C10_AllEnabledMerged ==
    (dpc = "done" /\ engine.readable /\ engine.section /\ engineWritable) =>
        \A i \in EnabledIdx : Declared(i, engine.packages)

\* C10, amended: after a deployment on a readable, writable engine
\* configuration that has the section, every package of every enabled mod
\* whose copy succeeded is in +NativePackages; the merge is not run for a
\* mod whose copy failed.
C10_CopiedMerged ==
    (dpc = "done" /\ engine.readable /\ engine.section /\ engineWritable) =>
        \A i \in EnabledIdx : Copied(i) => Declared(i, engine.packages)

\* The copy of the second mod failed and its package Q is missing, the
\* first mod was copied and its package P is there.
C10_Witness ==
    /\ dpc = "done"
    /\ engine.readable /\ engine.section /\ engineWritable
    /\ Len(mod_datas) >= 2
    /\ mod_datas[2].enabled /\ placed[2].result = "copy_failed"
    /\ Absent(engine.packages, "Q")
    /\ Copied(1) /\ ~Absent(engine.packages, "P")

\* The copy of record i failed.
CopyFailed(i) == placed[i].result \in {"mkdir_failed", "copy_failed"}

\* Record i is complete under its slot, and no other mod copied in the
\* pass is in that slot.
InOwnSlot(i) ==
    /\ [name |-> mod_datas[i].name, path |-> mod_datas[i].path,
        complete |-> TRUE] \in target[placed[i].slot].mods
    /\ \A j \in DOMAIN placed :
           (j # i /\ Copied(j)) => placed[j].slot # placed[i].slot

\* C24 (copy-failure isolation): after a pass in which the copy of an
\* enabled mod failed, the failure is in the log, the failed mod has no
\* complete copy under the target, and every other enabled mod was still
\* processed: each whose own copy went through is complete in a slot of
\* its own.
C24_CopyFailureIsolated ==
    (dpc = "done" /\ \E f \in EnabledIdx : CopyFailed(f)) =>
        /\ Line("Error", "Could not copy mod") \in dlog
        /\ \A i \in EnabledIdx :
               /\ placed[i].result # "none"
               /\ CopyFailed(i) =>
                      \A c \in SlotChars : \A m \in target[c].mods :
                          m.name = mod_datas[i].name => ~m.complete
               /\ Copied(i) => InOwnSlot(i)

\* DefaultEngine.ini cannot be read, or has no section
\* Engine.ScriptPackages.
BrokenEngine == ~engine.readable \/ ~engine.section

\* C27 (merge-failure isolation): after a pass on a DefaultEngine.ini that
\* cannot be read or has no Engine.ScriptPackages section, the error is in
\* the log, the file has no package entry (none is invented), and every
\* enabled mod was processed as on a sound file: each whose copy went
\* through is complete under its slot, and on a cleared target with every
\* copy succeeding the slots are a, b, c, ... from the bottom of the list.
C27_MergeFailureIsolated ==
    (dpc = "done" /\ BrokenEngine) =>
        /\ ~engine.readable =>
               Line("Error", "Could not read DefaultEngine.ini") \in dlog
        /\ (engine.readable /\ ~engine.section) =>
               Line("Error", "Could not find Engine.ScriptPackages") \in dlog
        /\ engine.packages = <<>>
        /\ \A i \in EnabledIdx :
               /\ placed[i].result # "none"
               /\ Copied(i) =>
                      [name |-> mod_datas[i].name, path |-> mod_datas[i].path,
                       complete |-> TRUE] \in target[placed[i].slot].mods
        /\ (cleared /\ \A i \in EnabledIdx : Copied(i)) =>
               \A i \in EnabledIdx :
                   placed[i].slot = CharA + RankFromBottom(i) - 1

\* Three enabled mods that declare packages, copied to c, b, a next to a
\* DefaultEngine.ini without the section.
C27_Witness ==
    /\ dpc = "done" /\ cleared
    /\ engine.readable /\ ~engine.section
    /\ Len(mod_datas) = 3
    /\ mod_datas[1].scripts # <<>>
    /\ \A i \in 1..3 : mod_datas[i].enabled /\ Copied(i)
    /\ placed[1].slot = CharA + 2

\* The step belongs to a deployment pass.
DeployStep == dvars' # dvars

\* C36 (a deploy changes the target and DefaultEngine.ini only): through
\* every step of a pass, whatever copy or merge fails in it, the list, the
\* registry in memory and in config.ini, and the directories under Mods/
\* with their descriptors are what they were.
C36_DeployTouchesTargetOnly ==
    [][DeployStep =>
          /\ mod_datas' = mod_datas
          /\ config' = config
          /\ disk' = disk
          /\ fs' = fs]_vars

\* A pass over three enabled mods is through: one copied, one whose copy
\* failed, next to a DefaultEngine.ini that cannot be written; the three
\* source directories and the three registry entries are there.
C36_Witness ==
    /\ dpc = "done"
    /\ ~engineWritable
    /\ Len(mod_datas) = 3
    /\ Copied(1) /\ CopyFailed(2) /\ Copied(3)
    /\ \A i \in 1..3 : fs[mod_datas[i].path] = Named(mod_datas[i].name)
    /\ Keys(disk.mods) = ListNames(mod_datas)

\* One turn of the slot search on candidate c: add1_str gives a strictly
\* greater name, or the same name (and the loop stops).
SearchAdvances(c) ==
    LET tmp == add1_str(<<c>>)
    IN  tmp = <<c>> \/ tmp[1] > c

\* The search from 'a' on the target as it is has come to its end: at a
\* name that is free, or at a name that the increment leaves unchanged.
SearchEnded ==
    LET fnd == FindSlot(target, <<CharA>>)
    IN  IF fnd.exhausted
        THEN SlotExists(target, fnd.folder) /\ add1_str(fnd.folder) = fnd.folder
        ELSE ~SlotExists(target, fnd.folder)

\* C37 (the slot search terminates): whatever directories are under the
\* deployment target, each turn of the search moves the candidate to a
\* strictly greater name or stops because the increment changed nothing,
\* the search ends at a free name or at the last name, and a pass that has
\* begun on a finite list reaches "Mods copied".
C37_SlotSearchTerminates ==
    /\ [](\A c \in SlotChars : SearchAdvances(c))
    /\ []SearchEnded
    /\ (dpc = "mods") ~> (dpc = "done")

\* A pass is through in which the search stopped once at a free name
\* behind 'a' and once at the last name, every name being taken.
C37_Witness ==
    /\ dpc = "done"
    /\ \E i \in DOMAIN placed : placed[i].exhausted /\ placed[i].slot = LastChar
    /\ \E i \in DOMAIN placed :
           ~placed[i].exhausted /\ placed[i].slot > CharA /\ Copied(i)

(***************************************************************************)
(* Removal, install outcomes and the names of the list (specification      *)
(* Spec).                                                                  *)
(***************************************************************************)
\* The step is a "Delete" whose remove_dir_all succeeded.
RemovalStep == pc = "idle" /\ remove_open /\ lastOp'.op = "remove"

\* C12 (removal is complete on its own): when a successful removal of mod
\* N returns, N's directory is gone, N's record is out of the list and
\* config.ini has no key N, before any reconcile.
C12_RemovalDropsEntry ==
    [][RemovalStep =>
          LET idx == selected_index(mod_datas, selected_mod) IN
          /\ fs'[mod_datas[idx].path] = NoDir
          /\ mod_datas' = RemoveAt(mod_datas, idx)
          /\ ~HasKey(disk'.mods, mod_datas[idx].name)]_vars

(***************************************************************************)
(* A config.ini that cannot be written (specification SpecWrite).          *)
(***************************************************************************)
WriteFailedLine == Line("Error", "Could not create config ini")

\* The outcomes by which a handler tells that the operation failed.
FailedOps == {"install_failed", "remove_failed", "edit_rejected",
              "edit_rename_failed", "edit_write_failed"}

\* The step ran an operation whose write of config.ini failed.
WriteFailsStep == ~regWritable /\ lastOp' # lastOp /\ WriteFailedLine \in log'

\* C14 (a failed registry write is escalated): an operation whose write of
\* config.ini fails ends in a failure outcome for its caller, not only in
\* a log line.
C14_WriteFailureEscalated ==
    [][WriteFailsStep => lastOp'.op \in FailedOps]_vars

(***************************************************************************)
(* The -download process beside the interactive instance (specification    *)
(* SpecHeadless).                                                          *)
(***************************************************************************)
\* The entries of the registry other than the one of key k.
Others(reg, k) == DeleteKey(reg, k)

\* A step of the -download process.
HeadlessStep == hpc' # hpc

\* A step of the interactive instance.
InteractiveStep == lastOp' # lastOp \/ pc' # pc

\* C15 (no lost update between the two processes): a write of config.ini
\* by the -download process changes nothing but the entry of the mod it
\* installed, so no toggle or reorder of the interactive instance is
\* discarded; and a write by the interactive instance keeps the entry the
\* -download process has added.
C15_NoLostUpdate ==
    [][/\ HeadlessStep => Others(disk'.mods, hmod') = Others(disk.mods, hmod')
       /\ InteractiveStep =>
             (hmod # "" /\ HasKey(disk.mods, hmod) => HasKey(disk'.mods, hmod))]_vars

\* The steps of the -download process, in the order of main.
HeadlessOrder == {<<"start", "scanned">>, <<"scanned", "installed">>,
                  <<"installed", "rescanned">>, <<"rescanned", "done">>}

\* C28 (the -download sequence): the process runs reconcile, install (or
\* the logged download failure), reconcile and the full registry rewrite,
\* in this order and each after the other whatever the download or the
\* install came to; the rewrite leaves config.ini with the names of the
\* list it was given as its keys.
C28_HeadlessSequence ==
    [][HeadlessStep =>
          /\ <<hpc, hpc'>> \in HeadlessOrder
          /\ hpc' \in {"scanned", "rescanned"} =>
                 hlist' = update_mods(hconfig, disk, regWritable, fs).list
          /\ hpc' = "done" =>
                 /\ hlist' = hlist
                 /\ disk'.mods = hconfig'
                 /\ \A i \in DOMAIN hlist : HasKey(disk'.mods, hlist[i].name)
                 /\ \A e \in DOMAIN disk'.mods :
                        \E i \in DOMAIN hlist : hlist[i].name = disk'.mods[e].key]_vars

(***************************************************************************)
(* Reconcile on descriptors edited by hand (specification SpecScan).       *)
(***************************************************************************)
\* C19 (no empty name): no record of the list has the empty name; a
\* descriptor whose Name is present and empty is left out by reconcile like
\* one without a Name.
C19_NoEmptyName == \A i \in DOMAIN mod_datas : mod_datas[i].name # ""

(***************************************************************************)
(* The Edit Mod window (specification SpecEdit).                           *)
(***************************************************************************)
\* The step is an "OK" whose fs::rename failed.
RenameFailedStep == pc = "idle" /\ edit_open /\ lastOp'.op = "edit_rename_failed"

\* C13 (a failed rename commits nothing): when the rename performed by an
\* edit fails, the list, the registry in memory and in config.ini, and
\* every descriptor under Mods/ are as before, and an Error line is logged.
C13_RenameFailureRollsBack ==
    [][RenameFailedStep =>
          /\ mod_datas' = mod_datas
          /\ config' = config
          /\ disk' = disk
          /\ fs' = fs
          /\ \E l \in log' : l.sev = "Error"]_vars

\* An edit of A to the new name B has just failed at the rename; A's
\* directory and descriptor are where they were.
C13_Witness ==
    /\ lastOp = [op |-> "edit_rename_failed", arg |-> "A"]
    /\ mod_edit.name = "B"
    /\ fs["A"] = Named("A")
    /\ \E i \in DOMAIN mod_datas : mod_datas[i].name = "A"

\* The step is File > Install Mod, whatever it came to.
InstallStep ==
    /\ pc = "idle"
    /\ pc' # "idle"
    /\ lastOp'.op \in {"install", "install_failed", "install_panic"}

\* No record is named like the directory: init_mod reads the descriptor.
Unlisted(list, dir) == \A i \in DOMAIN list : list[i].name # dir

\* C16 (install does not panic on a descriptor without Name): an install
\* of a directory no record is named after, which leaves in Mods/<dir> a
\* mod.ini with a Description section and no Name, returns normally, with
\* a new record or with a line of failure in the log.
C16_InstallNeverPanics ==
    [][(InstallStep /\ Unlisted(mod_datas, lastOp'.arg)
          /\ fs'[lastOp'.arg] = NoName) =>
          /\ pc' # "panicked"
          /\ \/ Len(mod_datas') = Len(mod_datas) + 1
             \/ \E l \in log' : l.sev \in {"Warn", "Error"}]_vars

\* C17 (a failed install is swallowed): an install that stops at the file
\* extension, at reading the archive or at extracting it logs an Error,
\* adds no record, leaves the registry in memory and config.ini as they
\* were, and returns.
C17_FailedInstallSwallowed ==
    [][(InstallStep /\ lastOp'.op = "install_failed") =>
          /\ mod_datas' = mod_datas
          /\ config' = config
          /\ disk' = disk
          /\ pc' = "frame"
          /\ \E l \in log' : l.sev = "Error"]_vars

\* The extraction of B.zip has just failed beside the installed mod A:
\* the list and config.ini hold A alone.
C17_Witness ==
    /\ lastOp = [op |-> "install_failed", arg |-> "B"]
    /\ log = {Line("Error", "Could not extract archive")}
    /\ pc = "frame"
    /\ ListNames(mod_datas) = <<"A">>
    /\ Keys(disk.mods) = <<"A">>

\* C18 (name uniqueness): in every reachable state no two records of the
\* list have the same name, after a reconcile and after an install too.
C18_UniqueNames ==
    \A i, j \in DOMAIN mod_datas :
        mod_datas[i].name = mod_datas[j].name => i = j

\* The step is the update_mods of a frame, on a config.ini it can load:
\* nothing but the list, the registry and the log changes in it.
ReconcileStep ==
    /\ pc \in {"idle", "frame"}
    /\ pc' = "idle"
    /\ lastOp'.op = "reconcile"
    /\ disk.exists
    /\ UNCHANGED <<selected_mod, remove_open, fs, regWritable, prevInstall>>
    /\ UNCHANGED <<dvars, svars, evars, hvars>>

\* C20 (a descriptor without Name is dropped for good): when reconcile
\* meets a registry entry whose mod.ini has a Description section and no
\* Name, no record is built for it and the registry it leaves, in memory
\* and in config.ini, no longer has the entry.
C20_NamelessEntryDropped ==
    [][ReconcileStep =>
          \A k \in Names :
              (HasKey(disk.mods, k) /\ fs[k] = NoName) =>
                  /\ Len(mod_datas') < Len(disk.mods)
                  /\ ~HasKey(config', k)
                  /\ ~HasKey(disk'.mods, k)]_vars

\* The operations that build or change the list.
OrderOps == {"reconcile", "reorder", "install", "remove"}

\* C22 (order is the position): after a reconcile, a drag-reorder, an
\* install or a remove, every record's order field is its 0-based position
\* in the list; a freshly installed mod has the length the list had before
\* it was appended.
C22_OrderIsPosition ==
    lastOp.op \in OrderOps =>
        \A i \in DOMAIN mod_datas : mod_datas[i].order = i - 1

(***************************************************************************)
(* Drag-reorder and the checkbox (specification SpecOrder).                *)
(***************************************************************************)

\* The step is a completed drag of a row.
ReorderStep == pc = "idle" /\ lastOp'.op = "reorder" /\ pc' = "frame"

\* No two records of the list have the same name.
DistinctNames(list) ==
    \A i, j \in DOMAIN list : list[i].name = list[j].name => i = j

\* `after' is `before' with the record at position f taken out and put
\* back at position g: that record and all the others are unchanged but
\* for the order field, and the others keep their relative order.
MovedOne(before, after, f, g) ==
    /\ Len(after) = Len(before)
    /\ Unordered(<<after[g]>>) = Unordered(<<before[f]>>)
    /\ Unordered(RemoveAt(after, g)) = Unordered(RemoveAt(before, f))

\* C29 (drag-reorder is a permutation): a completed drag yields the old
\* list with one record moved, names, paths, scripts and enabled flags
\* unchanged and the other records in their former relative order; every
\* order field is then the position of its record, and section Mods is
\* written again from the list in its new order, in memory and, when
\* config.ini can be written, on disk.
C29_ReorderPermutes ==
    [][ReorderStep =>
          /\ \E f, g \in DOMAIN mod_datas : MovedOne(mod_datas, mod_datas', f, g)
          /\ \A i \in DOMAIN mod_datas' : mod_datas'[i].order = i - 1
          /\ config' = OrderEntries(mod_datas', <<>>)
          /\ DistinctNames(mod_datas') => Keys(config') = ListNames(mod_datas')
          /\ regWritable => disk'.mods = config']_vars

\* Of the list [A, B, C] the row A has been dragged to the bottom: B and
\* C are first and second, and config.ini has the keys in this order.
C29_Witness ==
    /\ lastOp = [op |-> "reorder", arg |-> "A"]
    /\ pc = "frame"
    /\ ListNames(mod_datas) = <<"B", "C", "A">>
    /\ Keys(disk.mods) = <<"B", "C", "A">>

\* The step is a click on the checkbox of a row.
ToggleStep == pc = "idle" /\ lastOp'.op = "toggle" /\ pc' = "frame"

\* Section Mods `after' is `before' with the value of key k set to v: the
\* same keys at the same positions, every other value as it was.
OnlyValueOf(before, after, k, v) ==
    /\ Keys(after) = Keys(before)
    /\ \A e \in DOMAIN after :
           after[e].val = IF after[e].key = k THEN v ELSE before[e].val

\* C30 (a toggle changes one value): ticking or unticking the row of mod N
\* changes N's enabled flag and nothing else in the list, and in the
\* registry, in memory and in config.ini, the value of key N and nothing
\* else: the keys, their positions and the values of the other mods stay.
C30_ToggleChangesOneValue ==
    [][ToggleStep =>
          \E i \in DOMAIN mod_datas :
              /\ mod_datas' = [mod_datas EXCEPT ![i].enabled = ~@]
              /\ OnlyValueOf(config, config', mod_datas[i].name,
                             BoolStr(~mod_datas[i].enabled))
              /\ OnlyValueOf(disk.mods, disk'.mods, mod_datas[i].name,
                             BoolStr(~mod_datas[i].enabled))]_vars

(***************************************************************************)
(* A rename in the Edit Mod window that succeeds (specification SpecEdit). *)
(***************************************************************************)

\* The step is an OK of the Edit Mod window with a new, unused name, whose
\* fs::rename and write_data both succeeded.
RenamedStep == pc = "idle" /\ edit_open /\ lastOp'.op = "edit_relock"

\* The position of key k in a registry section, 0 when it is absent.
KeyIndex(reg, k) ==
    IF HasKey(reg, k) THEN CHOOSE i \in DOMAIN reg : reg[i].key = k ELSE 0

\* C23 (a successful rename completes): renaming mod O to an unused name
\* N returns to the frame and leaves config.ini with a key N and no key O,
\* N standing where O stood in the list and in the registry, and the
\* directory of the mod at Mods/N with its descriptor.
C23_RenameCompletes ==
    [][RenamedStep =>
          LET idx == selected_index(mod_datas, selected_mod)
              O   == selected_mod
              N   == mod_edit.name
          IN  /\ pc' = "frame"
              /\ HasKey(disk'.mods, N)
              /\ ~HasKey(disk'.mods, O)
              /\ mod_datas'[idx].name = N
              /\ KeyIndex(disk'.mods, N) = idx
              /\ fs'[N] = Named(N)]_vars

\* C31 (the registry lock is taken once): no handler ends in a second
\* CONFIG.lock() on the thread that holds the guard already; the commit of
\* a rename in particular neither blocks nor panics on one.
C31_LockTakenOnce == lastOp.op # "edit_relock" /\ pc # "hung"

(***************************************************************************)
(* An edit whose descriptor write fails (specification SpecEdit).          *)
(***************************************************************************)

\* The step is an OK of the Edit Mod window whose fs::rename succeeded and
\* whose write_data failed.
WriteFailedStep == pc = "idle" /\ edit_open /\ lastOp'.op = "edit_write_failed"

\* C35 (a failed edit orphans no mod): when the descriptor write of an
\* edit fails after the directory rename has succeeded, the mod still has
\* its registry entry and the directory this entry names still exists
\* with its descriptor, so that the next update_mods keeps the mod.
C35_FailedEditKeepsMod ==
    [][WriteFailedStep =>
          /\ HasKey(disk'.mods, selected_mod)
          /\ DirState(fs', selected_mod).kind = "ok"
          /\ \E i \in DOMAIN update_mods(config', disk', regWritable', fs').list :
                 update_mods(config', disk', regWritable', fs').list[i].name
                     = selected_mod]_vars

(***************************************************************************)
(* A confirmation for a mod that has left the list (specification Spec).   *)
(***************************************************************************)

\* The confirmations that ended in self.mod_datas[usize::MAX].
IndexPanics == {"remove_panic", "edit_panic"}

\* C34 (no index out of bounds): no confirmation of the Remove Mod or the
\* Edit Mod window indexes the list with the index of a mod that is not in
\* it; for a selected mod that has left the list the confirmation is
\* rejected or ignored.
C34_NoIndexPanic == lastOp.op \notin IndexPanics

(***************************************************************************)
(* The reconcile after an install, and reconcile after reconcile           *)
(* (specification Spec).                                                   *)
(***************************************************************************)

\* The step is the update_mods of the frame in which an install returned:
\* nothing has touched Mods/ in between.
ReconcileAfterInstall == lastOp.op = "install" /\ pc = "frame" /\ ReconcileStep

\* Record i is the mod of directory dir as its descriptor declares it.
RecordOfDir(i, dir) ==
    mod_datas[i].path = dir /\ fs[dir] = Named(mod_datas[i].name)

\* C32 (an installed mod survives the reconcile): the update_mods that
\* follows an install keeps, for the record of the directory just
\* installed, a record of that name in the list and an entry of that name
\* in config.ini, whether or not the descriptor's Name is the name of the
\* directory.
C32_InstalledSurvives ==
    [][ReconcileAfterInstall =>
          \A i \in DOMAIN mod_datas :
              RecordOfDir(i, lastOp.arg) =>
                  /\ \E j \in DOMAIN mod_datas' :
                         mod_datas'[j].name = mod_datas[i].name
                  /\ HasKey(disk'.mods, mod_datas[i].name)]_vars

\* C33 (reconcile is idempotent): an update_mods run on what an
\* update_mods has just left, Mods/ unchanged, builds the same list
\* (names, enabled flags, order) and leaves the same config.ini.
C33_ReconcileIdempotent ==
    [][ReconcileStep =>
          LET again == update_mods(config', disk', regWritable', fs')
          IN  /\ again.list = mod_datas'
              /\ again.disk = disk']_vars

(***************************************************************************)
(* The enabled flag reconcile gives a record (specification SpecScan).     *)
(***************************************************************************)

\* The entry at position e of config.ini has a descriptor with a Name.
ValidEntry(e) == DirState(fs, disk.mods[e].key).kind = "ok"

\* The position of the record update_mods builds for a valid entry: the
\* records are pushed in the order of the entries.
RecordOf(e) == Cardinality({x \in 1..e : ValidEntry(x)})

\* C21 (enabled is the stored value): for every registry entry with a
\* valid descriptor, the record reconcile builds for it is enabled if and
\* only if the stored value is exactly "True"; "False" and malformed text
\* give a disabled record.
C21_EnabledFromRegistry ==
    [][ReconcileStep =>
          \A e \in DOMAIN disk.mods :
              ValidEntry(e) =>
                  mod_datas'[RecordOf(e)].enabled = (disk.mods[e].val = "True")]_vars

(***************************************************************************)
(* Launch after launch (specification SpecRelaunch).                       *)
(***************************************************************************)
\* A record that is enabled now declares the package.
DeclaredByEnabled(package) ==
    \E i \in EnabledIdx : ~Absent(mod_datas[i].scripts, package)

\* +NativePackages is the bootstrap entry, first and once, followed by
\* packages of enabled mods only.
OnlyLivePackages ==
    /\ engine.packages # <<>>
    /\ engine.packages[1] = "REDGame"
    /\ Count(engine.packages, "REDGame") = 1
    /\ \A k \in DOMAIN engine.packages :
          engine.packages[k] = "REDGame" \/ DeclaredByEnabled(engine.packages[k])

\* C11 as stated: after any sequence of launches on a readable engine
\* configuration that has the section, +NativePackages holds only REDGame,
\* first and once, and packages of the mods enabled at the last launch.
C11_NoStalePackages ==
    (dpc = "done" /\ engine.readable /\ engine.section) => OnlyLivePackages

\* C11, amended: the same for an engine configuration the manager can also
\* write; a reset that cannot be written leaves the entries of earlier
\* launches in the file.
C11_NoStaleWritable ==
    (dpc = "done" /\ engine.readable /\ engine.section /\ engineWritable) =>
        OnlyLivePackages

\* The launch before left P, of a mod that is disabled or removed since;
\* this launch is over and P is gone, Q of the other mod is there.
C11_Witness ==
    /\ dpc = "done"
    /\ engine.readable /\ engine.section /\ engineWritable
    /\ ~Absent(prevPackages, "P")
    /\ ~DeclaredByEnabled("P")
    /\ Absent(engine.packages, "P")
    /\ ~Absent(engine.packages, "Q")

(***************************************************************************)
(* What a launch leaves under the deployment target (specification         *)
(* SpecStale).                                                             *)
(***************************************************************************)

\* The records enabled when the pass ran.
EnabledNames == {mod_datas[i].name : i \in EnabledIdx}

\* C25 (only enabled mods are deployed): after a launch every slot/name
\* directory under the deployment target belongs to a mod whose record was
\* enabled when the launch ran, and every package of +NativePackages other
\* than the bootstrap entry is declared by an enabled mod.
C25_OnlyEnabledDeployed ==
    dpc = "done" =>
        /\ \A c \in SlotChars : \A m \in target[c].mods : m.name \in EnabledNames
        /\ \A k \in DOMAIN engine.packages :
               engine.packages[k] = "REDGame" \/ DeclaredByEnabled(engine.packages[k])

\* The slot was created by this pass.
SlotOfThisPass(c) ==
    \E i \in DOMAIN placed :
        placed[i].slot = c /\ placed[i].result \in {"copied", "copy_failed"}

\* C26 (every launch starts from an empty target): after a launch, the
\* first or a later one, the slot directories under the target are those
\* this launch created, and when every copy went through the enabled mods
\* are in the slots a, b, c, ... from the bottom of the list up, launch
\* after launch the same for an unchanged list.
C26_FreshTarget ==
    dpc = "done" =>
        /\ \A c \in SlotChars : target[c].exists => SlotOfThisPass(c)
        /\ (\A i \in EnabledIdx : Copied(i)) =>
              \A i \in EnabledIdx : placed[i].slot = CharA + RankFromBottom(i) - 1

(***************************************************************************)
(* The descriptor round trip.                                              *)
(***************************************************************************)
Plain(str) == \A i \in DOMAIN str : str[i] # Backslash

\* C3 (descriptor round-trip): a descriptor with a non-empty name, written
\* and read back, has the same name, author, version, category,
\* description and page and the same scripts in the same order; here for
\* descriptors whose text has no character that the writer escapes.
C3_RoundTrip ==
    (spc = "read" /\ toWrite.name # <<>> /\ Plain(toWrite.name)
        /\ Plain(toWrite.author)) =>
        readBack = toWrite

====
